---------------------------- MODULE Spec2Model ----------------------------
(***************************************************************************)
(* Model of the menu-ai backend core: the recovery JSON parser              *)
(* (vision_parser.safe_json_parse), the menu parse endpoint, the dish       *)
(* extraction pipeline (dish_extractor.extract_popular_dishes) and the      *)
(* fuzzy dish matcher (dish_extractor.match_dish_to_menu).                  *)
(*                                                                         *)
(* Texts are sequences of one-character strings.  JSON values are tagged    *)
(* pairs <<tag, payload>>:                                                  *)
(*   <<"obj", f>>   f a function from keys (character sequences) to values  *)
(*   <<"arr", s>>   s a sequence of values                                  *)
(*   <<"str", s>>   s the decoded character sequence                        *)
(*   <<"num", s>>   s the characters of the number literal                  *)
(*   <<"true", <<>>>>, <<"false", <<>>>>, <<"null", <<>>>>, <<"nan", <<>>>>,*)
(*   <<"inf", <<>>>>, <<"-inf", <<>>>>                                      *)
(***************************************************************************)
EXTENDS Integers, Sequences, FiniteSets, TLC

(***************************************************************************)
(* Characters                                                               *)
(***************************************************************************)
Q == "\""
BS == "\\"
\* the backtick character (a TLA+ string cannot spell it)
BT == "backtick"
NL == "\n"

\* str.strip() and the regex class \s (the ASCII part of both)
PyWhitespace == {" ", "\t", "\n", "\r", "\f"}
\* json.decoder.WHITESPACE: [ \t\n\r]*
JsonWhitespace == {" ", "\t", "\n", "\r"}
Digits == {"0", "1", "2", "3", "4", "5", "6", "7", "8", "9"}

(***************************************************************************)
(* Sequence helpers                                                         *)
(***************************************************************************)
Min(a, b) == IF a <= b THEN a ELSE b

\* Python slice s[i-1:j] with 1-based inclusive bounds; empty when j < i
Slice(s, i, j) == IF j < i THEN << >> ELSE SubSeq(s, i, j)

\* s[i:] == lit[...] at 1-based position i
StartsWithAt(s, i, lit) ==
  /\ i + Len(lit) - 1 <= Len(s)
  /\ \A k \in 1..Len(lit) : s[i + k - 1] = lit[k]

EndsWith(s, lit) ==
  /\ Len(lit) <= Len(s)
  /\ \A k \in 1..Len(lit) : s[Len(s) - Len(lit) + k] = lit[k]

\* str.find(c): 1-based index of the first c, 0 when absent (Python: -1)
Find(s, c) ==
  IF \E i \in 1..Len(s) : s[i] = c
  THEN CHOOSE i \in 1..Len(s) : s[i] = c /\ \A j \in 1..(i - 1) : s[j] # c
  ELSE 0

\* str.rfind(c): 1-based index of the last c, 0 when absent (Python: -1)
RFind(s, c) ==
  IF \E i \in 1..Len(s) : s[i] = c
  THEN CHOOSE i \in 1..Len(s) : s[i] = c /\ \A j \in (i + 1)..Len(s) : s[j] # c
  ELSE 0

\* first position >= i whose character is not in ws (Len(s)+1 when none)
RECURSIVE SkipSet(_, _, _)
SkipSet(s, i, ws) ==
  IF i <= Len(s) /\ s[i] \in ws THEN SkipSet(s, i + 1, ws) ELSE i

\* last position <= i whose character is not in ws (0 when none)
RECURSIVE SkipSetBack(_, _, _)
SkipSetBack(s, i, ws) ==
  IF i >= 1 /\ s[i] \in ws THEN SkipSetBack(s, i - 1, ws) ELSE i

\* str.strip()
Strip(s) ==
  Slice(s, SkipSet(s, 1, PyWhitespace), SkipSetBack(s, Len(s), PyWhitespace))

(***************************************************************************)
(* json.loads: a recursive-descent parser over a character sequence.        *)
(* Every scanner returns [ok, val, end]: end is the position after the      *)
(* value.  The menu and dish code only tell success from JSONDecodeError,   *)
(* so a failure carries no value.                                           *)
(***************************************************************************)
JFail == [ok |-> FALSE, val |-> <<"error", << >> >>, end |-> 0]
JOk(v, e) == [ok |-> TRUE, val |-> v, end |-> e]

JNull == <<"null", << >> >>
JStr(s) == <<"str", s>>
JNum(s) == <<"num", s>>
JArr(s) == <<"arr", s>>
JObj(f) == <<"obj", f>>
EmptyObj == JObj(<< >>)
Tag(v) == v[1]
Payload(v) == v[2]

\* the simple escapes of json.decoder.BACKSLASH
Unescape(c) ==
  CASE c = "b" -> "\\b"
    [] c = "f" -> "\f"
    [] c = "n" -> "\n"
    [] c = "r" -> "\r"
    [] c = "t" -> "\t"
    [] OTHER -> c

\* json.decoder.py_scanstring from the position after the opening quote.
\* A \uXXXX escape decodes to one character, written here as the string
\* of its four hex digits prefixed by "u+".
RECURSIVE ScanString(_, _, _)
ScanString(s, i, acc) ==
  IF i > Len(s) THEN JFail
  ELSE IF s[i] = Q THEN JOk(JStr(acc), i + 1)
  \* strict mode rejects the characters below 0x20
  ELSE IF s[i] \in {"\t", "\n", "\r", "\f"} THEN JFail
  ELSE IF s[i] = BS THEN
    IF i + 1 > Len(s) THEN JFail
    ELSE IF s[i + 1] \in {Q, BS, "/", "b", "f", "n", "r", "t"}
      THEN ScanString(s, i + 2, Append(acc, Unescape(s[i + 1])))
    ELSE IF s[i + 1] = "u" /\ i + 5 <= Len(s)
            /\ \A k \in 2..5 : s[i + k] \in Digits \cup
                  {"a", "b", "c", "d", "e", "f", "A", "B", "C", "D", "E", "F"}
      THEN ScanString(s, i + 6,
             Append(acc, "u+" \o s[i + 2] \o s[i + 3] \o s[i + 4] \o s[i + 5]))
    ELSE JFail
  ELSE ScanString(s, i + 1, Append(acc, s[i]))

\* json.scanner.NUMBER_RE: (-?(?:0|[1-9]\d*))(\.\d+)?([eE][-+]?\d+)?
\* the position after the match at i, or 0 when there is no match
NumberEnd(s, i) ==
  LET HasAt(k, set) == k <= Len(s) /\ s[k] \in set
      i1 == IF HasAt(i, {"-"}) THEN i + 1 ELSE i
      i2 == IF HasAt(i1, {"0"}) THEN i1 + 1
            ELSE IF HasAt(i1, Digits \ {"0"}) THEN SkipSet(s, i1, Digits)
            ELSE 0
      i3 == IF HasAt(i2, {"."}) /\ HasAt(i2 + 1, Digits)
            THEN SkipSet(s, i2 + 1, Digits) ELSE i2
      e1 == IF HasAt(i3 + 1, {"-", "+"}) THEN i3 + 2 ELSE i3 + 1
      i4 == IF HasAt(i3, {"e", "E"}) /\ HasAt(e1, Digits)
            THEN SkipSet(s, e1, Digits) ELSE i3
  IN  IF i2 = 0 THEN 0 ELSE i4

\* json.scanner.py_make_scanner._scan_once with JSONObject and JSONArray
RECURSIVE ScanValue(_, _)
RECURSIVE ScanMembers(_, _, _)
RECURSIVE ScanElements(_, _, _)

ScanValue(s, i) ==
  IF i > Len(s) THEN JFail
  ELSE IF s[i] = Q THEN ScanString(s, i + 1, << >>)
  ELSE IF s[i] = "{" THEN
    LET j == SkipSet(s, i + 1, JsonWhitespace)
    IN  IF j <= Len(s) /\ s[j] = "}" THEN JOk(EmptyObj, j + 1)
        ELSE ScanMembers(s, j, << >>)
  ELSE IF s[i] = "[" THEN
    LET j == SkipSet(s, i + 1, JsonWhitespace)
    IN  IF j <= Len(s) /\ s[j] = "]" THEN JOk(JArr(<< >>), j + 1)
        ELSE ScanElements(s, j, << >>)
  ELSE IF StartsWithAt(s, i, <<"n", "u", "l", "l">>) THEN JOk(JNull, i + 4)
  ELSE IF StartsWithAt(s, i, <<"t", "r", "u", "e">>) THEN JOk(<<"true", << >> >>, i + 4)
  ELSE IF StartsWithAt(s, i, <<"f", "a", "l", "s", "e">>) THEN JOk(<<"false", << >> >>, i + 5)
  ELSE IF NumberEnd(s, i) # 0
    THEN JOk(JNum(SubSeq(s, i, NumberEnd(s, i) - 1)), NumberEnd(s, i))
  ELSE IF StartsWithAt(s, i, <<"N", "a", "N">>) THEN JOk(<<"nan", << >> >>, i + 3)
  ELSE IF StartsWithAt(s, i, <<"I", "n", "f", "i", "n", "i", "t", "y">>)
    THEN JOk(<<"inf", << >> >>, i + 8)
  ELSE IF StartsWithAt(s, i, <<"-", "I", "n", "f", "i", "n", "i", "t", "y">>)
    THEN JOk(<<"-inf", << >> >>, i + 9)
  ELSE JFail

\* JSONObject: i is the position where a key's opening quote is expected;
\* acc maps the keys read so far (a repeated key keeps its last value)
ScanMembers(s, i, acc) ==
  IF ~(i <= Len(s) /\ s[i] = Q) THEN JFail
  ELSE
    LET key == ScanString(s, i + 1, << >>)
        c == SkipSet(s, key.end, JsonWhitespace)
        v == ScanValue(s, SkipSet(s, c + 1, JsonWhitespace))
        d == SkipSet(s, v.end, JsonWhitespace)
        acc2 == (Payload(key.val) :> v.val) @@ acc
    IN  IF ~key.ok THEN JFail
        ELSE IF ~(c <= Len(s) /\ s[c] = ":") THEN JFail
        ELSE IF ~v.ok THEN JFail
        ELSE IF d > Len(s) THEN JFail
        ELSE IF s[d] = "}" THEN JOk(JObj(acc2), d + 1)
        ELSE IF s[d] = "," THEN ScanMembers(s, SkipSet(s, d + 1, JsonWhitespace), acc2)
        ELSE JFail

\* JSONArray: i is the position where an element is expected
ScanElements(s, i, acc) ==
  LET v == ScanValue(s, i)
      d == SkipSet(s, v.end, JsonWhitespace)
  IN  IF ~v.ok THEN JFail
      ELSE IF d > Len(s) THEN JFail
      ELSE IF s[d] = "]" THEN JOk(JArr(Append(acc, v.val)), d + 1)
      ELSE IF s[d] = ","
        THEN ScanElements(s, SkipSet(s, d + 1, JsonWhitespace), Append(acc, v.val))
      ELSE JFail

\* json.loads(s): JSONDecoder.decode; leading and trailing JSON whitespace
\* is allowed, anything else after the value is "Extra data"
JsonLoads(s) ==
  LET r == ScanValue(s, SkipSet(s, 1, JsonWhitespace))
  IN  IF r.ok /\ SkipSet(s, r.end, JsonWhitespace) = Len(s) + 1 THEN r ELSE JFail

(***************************************************************************)
(* The text transformations of safe_json_parse and of the dish pipeline     *)
(***************************************************************************)
Fence == <<BT, BT, BT>>
FenceJson == <<BT, BT, BT, "j", "s", "o", "n">>

\* re.sub(r'^MARKER\s*', '', s): the marker at the very start of the text
\* and the whitespace after it
StripLeadingMarker(s, marker) ==
  IF StartsWithAt(s, 1, marker)
  THEN Slice(s, SkipSet(s, Len(marker) + 1, PyWhitespace), Len(s))
  ELSE s

\* a variant of StripTrailingFence that leaves the trailing marker in place
KeepTrailingFence(s) == s

\* re.sub(r'\s*MARKER$', '', s) for the three-backtick marker: $ matches at
\* the end of the text and before a final newline
StripTrailingFence(s) ==
  IF EndsWith(s, Fence)
  THEN Slice(s, 1, SkipSetBack(s, Len(s) - 3, PyWhitespace))
  ELSE IF EndsWith(s, Fence \o <<NL>>)
  THEN Append(Slice(s, 1, SkipSetBack(s, Len(s) - 4, PyWhitespace)), NL)
  ELSE s

\* the three substitutions in the order of the code
RemoveFences(s) ==
  StripTrailingFence(StripLeadingMarker(StripLeadingMarker(s, FenceJson), Fence))

\* a variant of Isolate that stops at the first closing bracket
IsolateToFirstClose(s, open, close) ==
  LET start == Find(s, open)
      end == Find(s, close)
  IN  IF start # 0 /\ end # 0 THEN Slice(s, start, end) ELSE s

\* start = s.find(open); end = s.rfind(close);
\* if start != -1 and end != -1: s = s[start:end+1]
Isolate(s, open, close) ==
  LET start == Find(s, open)
      end == RFind(s, close)
  IN  IF start # 0 /\ end # 0 THEN Slice(s, start, end) ELSE s

\* re.sub(r',(\s*[}\]])', r'\1', s)
RECURSIVE RemoveTrailingCommasFrom(_, _)
RemoveTrailingCommasFrom(s, i) ==
  LET After(p) == SkipSet(s, p + 1, PyWhitespace)
      matches == {p \in i..Len(s) :
                    s[p] = "," /\ After(p) <= Len(s) /\ s[After(p)] \in {"}", "]"}}
      first == CHOOSE p \in matches : \A q \in matches : p <= q
  IN  IF matches = {} THEN Slice(s, i, Len(s))
      ELSE Slice(s, i, first - 1) \o SubSeq(s, first + 1, After(first))
           \o RemoveTrailingCommasFrom(s, After(first) + 1)

\* a variant of RemoveTrailingCommas that leaves the text as it is
KeepTrailingCommas(s) == s
RemoveTrailingCommas(s) == RemoveTrailingCommasFrom(s, 1)

\* re.sub(r'"\s*\n\s*"', '",\n"', s)
RECURSIVE InsertMissingCommasFrom(_, _)
InsertMissingCommasFrom(s, i) ==
  LET After(p) == SkipSet(s, p + 1, PyWhitespace)
      matches == {p \in i..Len(s) :
                    /\ s[p] = Q
                    /\ After(p) <= Len(s)
                    /\ s[After(p)] = Q
                    /\ \E k \in (p + 1)..(After(p) - 1) : s[k] = NL}
      first == CHOOSE p \in matches : \A q \in matches : p <= q
  IN  IF matches = {} THEN Slice(s, i, Len(s))
      ELSE Slice(s, i, first - 1) \o <<Q, ",", NL, Q>>
           \o InsertMissingCommasFrom(s, After(first) + 1)

InsertMissingCommas(s) == InsertMissingCommasFrom(s, 1)

\* safe_json_parse as a function of its text: the value returned, or the
\* ValueError raised after the third attempt
SafeJsonParse(text) ==
  LET isolated == Isolate(RemoveFences(Strip(text)), "{", "}")
      fixed1 == RemoveTrailingCommas(isolated)
      fixed2 == InsertMissingCommas(fixed1)
  IN  IF JsonLoads(isolated).ok THEN JsonLoads(isolated)
      ELSE IF JsonLoads(fixed1).ok THEN JsonLoads(fixed1)
      ELSE JsonLoads(fixed2)

(***************************************************************************)
(* The menu assembler: ParsedMenu built from parsed_json (pydantic v2)      *)
(***************************************************************************)
KeyMenu == <<"m", "e", "n", "u">>
KeyCategory == <<"c", "a", "t", "e", "g", "o", "r", "y">>
KeyItems == <<"i", "t", "e", "m", "s">>
KeyName == <<"n", "a", "m", "e">>
KeyPrice == <<"p", "r", "i", "c", "e">>

HasKey(obj, k) == k \in DOMAIN Payload(obj)
Field(obj, k) == Payload(obj)[k]

\* a field declared  str | None = None
OptionalStr(obj, k) == HasKey(obj, k) => Tag(Field(obj, k)) \in {"str", "null"}
\* a field declared  str = Field(...)
RequiredStr(obj, k) == HasKey(obj, k) /\ Tag(Field(obj, k)) = "str"
\* a field declared  float | None = None  (lax mode: numbers, booleans and
\* numeric strings are accepted)
OptionalFloat(obj, k) ==
  HasKey(obj, k) =>
    \/ Tag(Field(obj, k)) \in {"num", "null", "true", "false", "nan", "inf", "-inf"}
    \/ /\ Tag(Field(obj, k)) = "str"
       /\ LET t == Strip(Payload(Field(obj, k)))
          IN  t # << >> /\ NumberEnd(t, 1) = Len(t) + 1
\* a field declared  list[T] = Field(default_factory=list): the elements,
\* or none when the field is absent; IsList when it is absent or a list
IsList(obj, k) == HasKey(obj, k) => Tag(Field(obj, k)) = "arr"
Elements(obj, k) == IF HasKey(obj, k) THEN Payload(Field(obj, k)) ELSE << >>

\* models/menu.py MenuItem
ValidMenuItem(v) ==
  /\ Tag(v) = "obj"
  /\ RequiredStr(v, KeyName)
  /\ OptionalStr(v, KeyName \o <<"_", "t", "r", "a", "n", "s", "l", "a", "t", "e", "d">>)
  /\ OptionalFloat(v, KeyPrice)
  /\ OptionalStr(v, KeyPrice \o <<"_", "o", "r", "i", "g", "i", "n", "a", "l">>)
  /\ OptionalStr(v, <<"c", "u", "r", "r", "e", "n", "c", "y">>)
  /\ OptionalStr(v, <<"d", "e", "s", "c", "r", "i", "p", "t", "i", "o", "n">>)
  /\ OptionalStr(v, <<"d", "e", "s", "c", "r", "i", "p", "t", "i", "o", "n", "_",
                      "t", "r", "a", "n", "s", "l", "a", "t", "e", "d">>)

\* models/menu.py MenuCategory
ValidMenuCategory(v) ==
  /\ Tag(v) = "obj"
  /\ RequiredStr(v, KeyCategory)
  /\ OptionalStr(v, KeyCategory \o <<"_", "t", "r", "a", "n", "s", "l", "a", "t", "e", "d">>)
  /\ IsList(v, KeyItems)
  /\ \A i \in 1..Len(Elements(v, KeyItems)) : ValidMenuItem(Elements(v, KeyItems)[i])

\* models/menu.py ParsedMenu, for a dictionary of keyword arguments
ValidParsedMenu(v) ==
  \* detected_language, target_language
  /\ OptionalStr(v, <<"d", "e", "t", "e", "c", "t", "e", "d", "_", "l", "a", "n",
                      "g", "u", "a", "g", "e">>)
  /\ OptionalStr(v, <<"t", "a", "r", "g", "e", "t", "_", "l", "a", "n", "g", "u",
                      "a", "g", "e">>)
  /\ IsList(v, KeyMenu)
  /\ \A i \in 1..Len(Elements(v, KeyMenu)) : ValidMenuCategory(Elements(v, KeyMenu)[i])

\* the categories of the ParsedMenu built from a valid dictionary: the
\* menu field, or its default (the empty list)
MenuOf(v) == Elements(v, KeyMenu)

\* the JSON key of every field of the three models
FieldNames ==
  [name |-> KeyName,
   name_translated |-> KeyName \o <<"_", "t", "r", "a", "n", "s", "l", "a", "t", "e", "d">>,
   price |-> KeyPrice,
   price_original |-> KeyPrice \o <<"_", "o", "r", "i", "g", "i", "n", "a", "l">>,
   currency |-> <<"c", "u", "r", "r", "e", "n", "c", "y">>,
   description |-> <<"d", "e", "s", "c", "r", "i", "p", "t", "i", "o", "n">>,
   description_translated |->
     <<"d", "e", "s", "c", "r", "i", "p", "t", "i", "o", "n", "_",
       "t", "r", "a", "n", "s", "l", "a", "t", "e", "d">>,
   category |-> KeyCategory,
   category_translated |->
     KeyCategory \o <<"_", "t", "r", "a", "n", "s", "l", "a", "t", "e", "d">>,
   items |-> KeyItems,
   detected_language |->
     <<"d", "e", "t", "e", "c", "t", "e", "d", "_", "l", "a", "n", "g", "u", "a", "g", "e">>,
   target_language |->
     <<"t", "a", "r", "g", "e", "t", "_", "l", "a", "n", "g", "u", "a", "g", "e">>,
   menu |-> KeyMenu]

\* the value of an optional field: the one given, or the default None
Given(obj, f) == IF HasKey(obj, FieldNames[f]) THEN Field(obj, FieldNames[f]) ELSE JNull

\* float(x) as pydantic's lax mode converts an accepted value; the float is
\* kept as its repr.  Of the literals, those of digits only are rewritten
\* (12 becomes 12.0); the others drawn here are in repr form already.
ToFloat(v) ==
  LET lit == IF Tag(v) = "str" THEN Strip(Payload(v)) ELSE Payload(v)
      digits == \A i \in 1..Len(lit) : lit[i] \in Digits \/ (i = 1 /\ lit[i] = "-")
  IN  CASE Tag(v) = "true" -> JNum(<<"1", ".", "0">>)
        [] Tag(v) = "false" -> JNum(<<"0", ".", "0">>)
        [] Tag(v) \in {"num", "str"} ->
             JNum(IF digits THEN lit \o <<".", "0">> ELSE lit)
        [] OTHER -> v

\* a variant of BuildItems that lists the items last to first
BuildItemsReversed(elems) ==
  [i \in 1..Len(elems) |->
     LET e == elems[Len(elems) + 1 - i]
     IN  [name |-> Given(e, "name"),
          name_translated |-> Given(e, "name_translated"),
          price |-> ToFloat(Given(e, "price")),
          price_original |-> Given(e, "price_original"),
          currency |-> Given(e, "currency"),
          description |-> Given(e, "description"),
          description_translated |-> Given(e, "description_translated")]]

\* models/menu.py MenuItem: the items built from a list of valid dictionaries
BuildItems(elems) ==
  [i \in 1..Len(elems) |->
     [name |-> Given(elems[i], "name"),
      name_translated |-> Given(elems[i], "name_translated"),
      price |-> ToFloat(Given(elems[i], "price")),
      price_original |-> Given(elems[i], "price_original"),
      currency |-> Given(elems[i], "currency"),
      description |-> Given(elems[i], "description"),
      description_translated |-> Given(elems[i], "description_translated")]]

\* models/menu.py MenuCategory: the categories built from a list of valid
\* dictionaries
BuildCategories(elems) ==
  [i \in 1..Len(elems) |->
     [category |-> Given(elems[i], "category"),
      category_translated |-> Given(elems[i], "category_translated"),
      items |-> BuildItems(Elements(elems[i], KeyItems))]]

\* models/menu.py ParsedMenu: the instance built from a valid dictionary;
\* keys that name no field are ignored
BuildMenu(v) ==
  [detected_language |-> Given(v, "detected_language"),
   target_language |-> Given(v, "target_language"),
   menu |-> BuildCategories(MenuOf(v))]

\* a variant of Assemble that leaves out the categories that are not valid
AssembleLenient(v) ==
  IF Tag(v) # "obj" THEN [exc |-> "TypeError", menu |-> JNull]
  ELSE IF ~IsList(v, KeyMenu) THEN [exc |-> "ValidationError", menu |-> JNull]
  ELSE [exc |-> "none",
        menu |-> <<"ParsedMenu",
                   [detected_language |-> JNull, target_language |-> JNull,
                    menu |-> BuildCategories(SelectSeq(MenuOf(v), ValidMenuCategory))]>>]

\* parse_menu_image line 241: the ParsedMenu built from the keyword
\* arguments that the value returned by safe_json_parse is unpacked into
Assemble(v) ==
  IF Tag(v) # "obj" THEN [exc |-> "TypeError", menu |-> JNull]
  ELSE IF ~ValidParsedMenu(v) THEN [exc |-> "ValidationError", menu |-> JNull]
  ELSE [exc |-> "none", menu |-> <<"ParsedMenu", BuildMenu(v)>>]

\* a variant of Serialize that leaves out the fields that are None
SerializeSet(x) ==
  LET Obj(rec, fields) ==
        JObj([k \in {FieldNames[f] : f \in {g \in fields : rec[g] # JNull}} |->
                rec[CHOOSE f \in fields : FieldNames[f] = k]])
      Item(it) == Obj(it, DOMAIN it)
      Cat(c) ==
        Obj([c EXCEPT !.items = JArr([i \in 1..Len(c.items) |-> Item(c.items[i])])],
            DOMAIN c)
  IN  Obj([x EXCEPT !.menu = JArr([i \in 1..Len(x.menu) |-> Cat(x.menu[i])])], DOMAIN x)

\* main.py 57 and 98: the returned ParsedMenu as FastAPI serializes it for
\* response_model=ParsedMenu: every field of every model, None as null
Serialize(x) ==
  LET Obj(rec) ==
        JObj([k \in {FieldNames[f] : f \in DOMAIN rec} |->
                rec[CHOOSE f \in DOMAIN rec : FieldNames[f] = k]])
      Cat(c) ==
        Obj([c EXCEPT !.items = JArr([i \in 1..Len(c.items) |-> Obj(c.items[i])])])
  IN  Obj([x EXCEPT !.menu = JArr([i \in 1..Len(x.menu) |-> Cat(x.menu[i])])])

(***************************************************************************)
(* vision_parser.build_multilingual_prompt.  The prompt is kept as the      *)
(* sequence of its lines (the text is the lines joined by newlines), a line *)
(* as the sequence of its pieces: a run of literal text, one character, the *)
(* name u+xxxx of a character outside ASCII, or a character of the target   *)
(* language.  The keys of the example JSON are spelled character by         *)
(* character.  An argument is JNull for None, or a JStr.                    *)
(***************************************************************************)
\* a variant of Truthy that tests  target_language is not None
IsNotNone(v) == Tag(v) = "str"

\* line 51: the truth value of  str | None : None and "" are false
Truthy(v) == Tag(v) = "str" /\ Payload(v) # << >>

\* lines 14-116
BuildMultilingualPrompt(target) ==
  LET lang == IF Tag(target) = "str" THEN Payload(target) ELSE << >>
      \* lines 24-49
      base_prompt ==
        <<<<"You are an expert at understanding restaurant menus in any language.">>,
          << >>,
          <<"Analyze the menu in this image and extract a structured representation of all the dishes.">>,
          << >>,
          <<"Your tasks:">>,
          <<"1. Detect the language of the menu text automatically">>,
          <<"2. Read all visible text from the image (OCR) in the original language">>,
          <<"3. Identify and group the content into categories">>,
          <<"4. For each dish, extract:">>,
          <<"   - name: the dish name in original language">>,
          <<"   - price: NUMERIC price ONLY (e.g., 12.5, 800, 45.99)">>,
          <<"   - price_original: the EXACT price text from image (e.g., \"", "u+516b",
            "u+767e", "u+5186", "\", \"$12.50\", \"", "u+00a5", "800\")">>,
          <<"   - currency: currency symbol or code (e.g., \"$\", \"", "u+00a5", "\", \"",
            "u+20ac", "\", \"USD\", \"JPY\")">>,
          <<"   - description: ingredient or preparation text in original language (if present)">>,
          <<"5. Preserve the order from top to bottom and left to right">>,
          <<"6. Skip irrelevant text (phone numbers, URLs, social media, etc.)">>,
          << >>,
          <<"PRICE HANDLING RULES:">>,
          <<"- If price is in words/native language (e.g., \"", "u+516b", "u+767e", "u+5186",
            "\"=800yen, \"", "u+5341", "u+5757", "\"=10yuan), convert to number">>,
          <<"- Always preserve EXACT original price text in price_original">>,
          <<"- If price is unclear or handwritten and you can't read it, set price to null but keep price_original">>,
          <<"- Extract currency symbol (", "u+00a5", ", $, ", "u+20ac", ", etc.) separately">>,
          <<"- Examples:">>,
          <<"  * \"", "u+516b", "u+767e", "u+5186", "\" ", "u+2192",
            " price: 800, price_original: \"", "u+516b", "u+767e", "u+5186",
            "\", currency: \"", "u+00a5", "\"">>,
          <<"  * \"$12.50\" ", "u+2192",
            " price: 12.5, price_original: \"$12.50\", currency: \"$\"">>,
          <<"  * \"market price\" ", "u+2192",
            " price: null, price_original: \"market price\", currency: null">>>>
      \* lines 51-59
      translation_instruction ==
        IF Truthy(target)
        THEN <<<<"7. Translate ALL text to ">> \o lang \o <<":">>,
               <<"   - category_translated: Translate category name to ">> \o lang,
               <<"   - name_translated: Translate dish name to ">> \o lang,
               <<"   - description_translated: Translate description to ">> \o lang,
               <<"   Keep translations natural and culturally appropriate.">>>>
        ELSE << >>
      \* lines 61-69
      structure_head ==
        <<<< >>,
          <<"Return a **valid JSON** object with this EXACT structure:">>,
          <<"{">>,
          <<"  ", Q, "d", "e", "t", "e", "c", "t", "e", "d", "_", "l", "a", "n", "g", "u",
            "a", "g", "e", Q, ": ",
            "\"Language Name (e.g., Japanese, Chinese, Korean, English, etc.)\",">>>>
        \o <<<<"  ", Q, "t", "a", "r", "g", "e", "t", "_", "l", "a", "n", "g", "u", "a", "g", "e", Q, ": ">>
               \o (IF Truthy(target) THEN <<Q>> \o lang \o <<Q>> ELSE <<"null">>)
               \o <<",">> >>
        \o <<<<"  ", Q, "m", "e", "n", "u", Q, ": ", "[">>,
          <<"    {">>,
          <<"      ", Q, "c", "a", "t", "e", "g", "o", "r", "y", Q, ": ",
            "\"Category in original language\",">>>>
      \* lines 71-73
      category_translated ==
        IF Truthy(target)
        THEN <<<<"      ", Q, "c", "a", "t", "e", "g", "o", "r", "y", "_", "t", "r", "a",
                 "n", "s", "l", "a", "t", "e", "d", Q, ": ", "\"Category in ">> \o lang \o <<"\",">>>>
        ELSE << >>
      \* lines 75-78
      structure_items ==
        <<<<"      ", Q, "i", "t", "e", "m", "s", Q, ": ", "[">>,
          <<"        {">>,
          <<"          ", Q, "n", "a", "m", "e", Q, ": ",
            "\"Dish name in original language\",">>>>
      \* lines 80-82
      name_translated ==
        IF Truthy(target)
        THEN <<<<"          ", Q, "n", "a", "m", "e", "_", "t", "r", "a", "n", "s", "l", "a",
                 "t", "e", "d", Q, ": ", "\"Dish name in ">> \o lang \o <<"\",">>>>
        ELSE << >>
      \* lines 84-88
      structure_price ==
        <<<<"          ", Q, "p", "r", "i", "c", "e", Q, ": ", "12.5,">>,
          <<"          ", Q, "p", "r", "i", "c", "e", "_", "o", "r", "i", "g", "i", "n", "a",
            "l", Q, ": ", "\"", "u+00a5", "1250\",">>,
          <<"          ", Q, "c", "u", "r", "r", "e", "n", "c", "y", Q, ": ", "\"", "u+00a5",
            "\",">>,
          <<"          ", Q, "d", "e", "s", "c", "r", "i", "p", "t", "i", "o", "n", Q, ": ",
            "\"Description in original language\",">>>>
      \* lines 90-92
      description_translated ==
        IF Truthy(target)
        THEN <<<<"          ", Q, "d", "e", "s", "c", "r", "i", "p", "t", "i", "o", "n", "_",
                 "t", "r", "a", "n", "s", "l", "a", "t", "e", "d", Q, ": ",
                 "\"Description in ">> \o lang>>
        ELSE << >>
      \* lines 94-115
      structure_tail ==
        <<<<"        }">>,
          <<"      ]">>,
          <<"    }">>,
          <<"  ]">>,
          <<"}">>,
          << >>,
          <<"CRITICAL JSON FORMATTING RULES:">>,
          <<"- Output ONLY valid JSON, nothing else (no markdown, no explanations, no ", BT,
            BT, BT, "json blocks)">>,
          <<"- NO trailing commas before ] or }">>,
          <<"- Use double quotes for all strings, not single quotes">>,
          <<"- Escape special characters in strings (quotes, backslashes, newlines)">>,
          <<"- If description contains quotes, escape them: \\\"">>,
          <<"- Ensure all brackets and braces are balanced">>,
          <<"- Test your JSON is valid before returning">>,
          << >>,
          <<"OTHER RULES:">>,
          <<"- Preserve original text exactly as it appears">>,
          <<"- Normalize capitalization while keeping names readable">>,
          <<"- For Asian languages (Chinese, Japanese, Korean), preserve character accuracy">>,
          <<"- Detect language based on the actual text in the image, not assumptions">>,
          << >>>>
      json_structure ==
        structure_head \o category_translated \o structure_items \o name_translated
        \o structure_price \o description_translated \o structure_tail
  IN  base_prompt \o translation_instruction \o json_structure


(***************************************************************************)
(* The texts the model may answer with.  A response is a core text, with    *)
(* or without prose or a fence around it (the inner text), and possibly     *)
(* wrapped once more in a leading and a trailing fence marker.              *)
(***************************************************************************)
MaxPad == 1

RECURSIVE Newlines(_)
Newlines(k) == IF k = 0 THEN << >> ELSE <<NL>> \o Newlines(k - 1)

\* {"a":"}"}
TxtBraceInString == <<"{", Q, "a", Q, ":", Q, "}", Q, "}">>
\* [1]
TxtArray == <<"[", "1", "]">>
\* 12
TxtNumber == <<"1", "2">>
\* null
TxtNull == <<"n", "u", "l", "l">>
TxtEmpty == << >>
TxtBlank == <<" ">>
\* abc
TxtProse == <<"a", "b", "c">>

\* the core texts
CoreTexts ==
  {
    \* -- valid JSON objects --
    \* {}
    <<"{", "}">>,
    \* {"menu":[]}
    <<"{", Q, "m", "e", "n", "u", Q, ":", "[", "]", "}">>,
    \* {"menu":[{"category":"A"}]}
    <<"{", Q, "m", "e", "n", "u", Q, ":", "[", "{", Q, "c", "a", "t", "e",
      "g", "o", "r", "y", Q, ":", Q, "A", Q, "}", "]", "}">>,
    \* {"menu":[{"items":[]}]}
    <<"{", Q, "m", "e", "n", "u", Q, ":", "[", "{", Q, "i", "t", "e", "m",
      "s", Q, ":", "[", "]", "}", "]", "}">>,
    TxtBraceInString,
    \* {"a":"x,}"}
    <<"{", Q, "a", Q, ":", Q, "x", ",", "}", Q, "}">>,
    \* {"a":"<fence marker>"}
    <<"{", Q, "a", Q, ":", Q, BT, BT, BT, Q, "}">>,
    \* { "a" : [1, 2] }
    <<"{", " ", Q, "a", Q, " ", ":", " ", "[", "1", ",", " ", "2", "]", " ",
      "}">>,
    \* -- valid JSON of another kind --
    TxtArray,
    \* [{"a":1}]
    <<"[", "{", Q, "a", Q, ":", "1", "}", "]">>,
    \* [{"a":1},{"b":2}]
    <<"[", "{", Q, "a", Q, ":", "1", "}", ",", "{", Q, "b", Q, ":", "2",
      "}", "]">>,
    \* "a{b}c"
    <<Q, "a", "{", "b", "}", "c", Q>>,
    \* "}{"
    <<Q, "}", "{", Q>>,
    \* "{"
    <<Q, "{", Q>>,
    TxtNumber,
    TxtNull,
    \* -- texts that are not valid JSON --
    \* {"a":1,}
    <<"{", Q, "a", Q, ":", "1", ",", "}">>,
    \* {"a":[1,],}
    <<"{", Q, "a", Q, ":", "[", "1", ",", "]", ",", "}">>,
    \* {"a":"x"<newline>"b":"y"}
    <<"{", Q, "a", Q, ":", Q, "x", Q, NL, Q, "b", Q, ":", Q, "y", Q, "}">>,
    \* {"a":"x"<newline>"b":"y",}
    <<"{", Q, "a", Q, ":", Q, "x", Q, NL, Q, "b", Q, ":", Q, "y", Q, ",",
      "}">>,
    \* {"a":"x,}",}
    <<"{", Q, "a", Q, ":", Q, "x", ",", "}", Q, ",", "}">>,
    TxtEmpty,
    TxtBlank,
    \* {"menu": [}
    <<"{", Q, "m", "e", "n", "u", Q, ":", " ", "[", "}">>,
    TxtProse,
    \* } text {
    <<"}", " ", "t", "e", "x", "t", " ", "{">> }

\* "Sure: " before and " ok" after the JSON
ProseBefore == <<"S", "u", "r", "e", ":", " ">>
ProseAfter == <<" ", "o", "k">>

FenceMarkers == {Fence, FenceJson}
InnerTexts ==
  LET LeadIns ==
        {<< >>, ProseBefore} \cup {m \o Newlines(k) : m \in FenceMarkers, k \in 0..MaxPad}
      LeadOuts == {<< >>, ProseAfter} \cup {Newlines(k) \o Fence : k \in 0..MaxPad}
  IN  {a \o c \o b : a \in LeadIns, c \in CoreTexts, b \in LeadOuts}

\* the positions of the closing } and ] of t that stand outside its strings
RECURSIVE ClosersFrom(_, _, _)
ClosersFrom(t, i, in_string) ==
  IF i > Len(t) THEN {}
  ELSE IF in_string
  THEN IF t[i] = BS THEN ClosersFrom(t, i + 2, TRUE)
       ELSE ClosersFrom(t, i + 1, t[i] # Q)
  ELSE IF t[i] = Q THEN ClosersFrom(t, i + 1, TRUE)
  ELSE (IF t[i] \in {"}", "]"} THEN {i} ELSE {}) \cup ClosersFrom(t, i + 1, FALSE)
\* the core texts that are valid JSON objects
ObjectTexts == {c \in CoreTexts : JsonLoads(c).ok /\ Tag(JsonLoads(c).val) = "obj"}
\* t with a comma, and the whitespace pad, put in front of position i
WithTrailingComma(t, i, pad) == Slice(t, 1, i - 1) \o <<",">> \o pad \o Slice(t, i, Len(t))
CommaPads == {<< >>, <<" ">>, <<NL>>}

\* {"a":"<v>"<sep>"b":"y"}: an object of two string fields, sep between the
\* closing quote of the first value and the opening quote of the next key
TwoFields(v, sep) ==
  <<"{", Q, "a", Q, ":", Q>> \o v \o <<Q>> \o sep \o <<Q, "b", Q, ":", Q, "y", Q, "}">>
\* answers whose separating comma is missing: the first value (x, the empty
\* string, and ,} ) and what stands in its place (a newline with or without
\* blanks around it)
MissingCommaCases ==
  {<<v, a \o <<NL>> \o b>> : v \in {<<"x">>, << >>, <<",", "}">>},
                            a \in {<< >>, <<" ">>}, b \in {<< >>, <<" ">>}}

\* json.dumps: the text of a JSON value (the members of an object in some
\* order), used to write the answers below
RECURSIVE Escaped(_)
Escaped(chars) ==
  IF chars = << >> THEN << >>
  ELSE (IF Head(chars) \in {Q, BS} THEN <<BS, Head(chars)>> ELSE <<Head(chars)>>)
       \o Escaped(Tail(chars))
RECURSIVE Dump(_)
RECURSIVE DumpAll(_, _, _)
DumpAll(v, keys, i) ==
  IF Tag(v) = "arr"
  THEN IF i > Len(Payload(v)) THEN << >>
       ELSE (IF i > 1 THEN <<",">> ELSE << >>) \o Dump(Payload(v)[i]) \o DumpAll(v, keys, i + 1)
  ELSE IF keys = {} THEN << >>
       ELSE LET k == CHOOSE x \in keys : TRUE
            IN  (IF i > 1 THEN <<",">> ELSE << >>)
                \o <<Q>> \o Escaped(k) \o <<Q, ":">> \o Dump(Payload(v)[k])
                \o DumpAll(v, keys \ {k}, i + 1)
Dump(v) ==
  CASE Tag(v) = "obj" -> <<"{">> \o DumpAll(v, DOMAIN Payload(v), 1) \o <<"}">>
    [] Tag(v) = "arr" -> <<"[">> \o DumpAll(v, {}, 1) \o <<"]">>
    [] Tag(v) = "str" -> <<Q>> \o Escaped(Payload(v)) \o <<Q>>
    [] Tag(v) = "num" -> Payload(v)
    [] OTHER -> TxtNull

MaxItems == 2
MaxCategories == 2

\* answers of the data-model shape, and answers that break it
FixtureMenus ==
  LET F == FieldNames
      Str(c) == JStr(<<c>>)
      itemA == JObj(F.name :> Str("A"))
      itemB == JObj((F.name :> Str("B")) @@ (F.price :> JNum(<<"1", "2">>))
                    @@ (F.description :> JNull))
      itemFull ==
        JObj((F.name :> Str("C")) @@ (F.name_translated :> JNull)
             @@ (F.price :> JNum(<<"1", "2", ".", "5">>))
             @@ (F.price_original :> JStr(<<"1", "2", ".", "5">>))
             @@ (F.currency :> Str("$")) @@ (F.description :> Str("d"))
             @@ (F.description_translated :> Str("e")))
      itemPriceText == JObj((F.name :> Str("D")) @@ (F.price :> JStr(<<"1", "2">>)))
      lists == UNION {[1..n -> {itemA, itemB}] : n \in 0..MaxItems}
      Cat(c, l) == JObj((F.category :> Str(c)) @@ (F.items :> JArr(l)))
      catFull ==
        JObj((F.category :> Str("U")) @@ (F.category_translated :> JNull)
             @@ (F.items :> JArr(<<itemFull>>)))
      good == {Cat("S", l) : l \in lists}
              \cup {JObj(F.category :> Str("T")), catFull, Cat("V", <<itemPriceText>>)}
      bad == {JObj(F.items :> JArr(<< >>)),
              JObj(F.category :> JNum(<<"1">>)),
              Cat("S", <<JObj(F.price :> JNum(<<"1">>))>>),
              Cat("S", <<itemA, JObj(F.name :> JNum(<<"1">>))>>),
              Cat("S", <<itemA, JObj(F.name :> JNull)>>),
              JObj((F.category :> Str("S")) @@ (F.items :> Str("x")))}
      \* the categories of the menus that hold two or more
      several == {Cat("S", <<itemB, itemA>>), Cat("S", <<itemA, itemA>>),
                  JObj(F.category :> Str("T"))}
      Menu(cats) == JObj(F.menu :> JArr(cats))
  IN  {Menu(cats) : cats \in {<< >>} \cup {<<c>> : c \in good}}
      \cup {Menu(cats) : cats \in UNION {[1..n -> several] : n \in 2..MaxCategories}}
      \cup {Menu(cats) : cats \in UNION {{<<b>>, <<Cat("S", <<itemA>>), b>>,
                                            <<b, Cat("S", <<itemA>>)>>} : b \in bad}}
      \cup {JObj((F.detected_language :> Str("x")) @@ (F.target_language :> JNull)
                 @@ (F.menu :> JArr(<<catFull>>))),
            JObj((F.detected_language :> JNum(<<"1">>)) @@ (F.menu :> JArr(<< >>))),
            JObj(F.menu :> JNull)}

\* vision_parser.py 189: the length of the preview
PreviewLen == 500

\* a response: its text, the inner text and the outer marker (empty when
\* the inner text was not wrapped again)
Responses ==
  LET \* answers with one trailing comma too many
      TrailingCommaTexts ==
        UNION {{WithTrailingComma(c, i, pad) :
                  i \in ClosersFrom(c, 1, FALSE), pad \in CommaPads} : c \in ObjectTexts}
      \* answers longer than the preview that no attempt parses: { xxx...x },
      \* alone and after prose
      long == <<"{">> \o [k \in 1..(PreviewLen + 3) |-> "x"] \o <<"}">>
      LongTexts == {long, ProseBefore \o long}
      \* t wrapped in a leading marker and a trailing marker, k newlines inside
      FenceWrap(marker, k, t) == marker \o Newlines(k) \o t \o Newlines(k) \o Fence
  IN  {[present |-> TRUE, text |-> t, unfenced |-> t, wrapper |-> << >>] :
         t \in InnerTexts \cup TrailingCommaTexts \cup LongTexts
               \cup {Dump(v) : v \in FixtureMenus}
               \cup {TwoFields(c[1], c[2]) : c \in MissingCommaCases}}
      \cup {[present |-> TRUE, text |-> FenceWrap(m, k, t), unfenced |-> t, wrapper |-> m] :
              m \in FenceMarkers, k \in 0..MaxPad, t \in InnerTexts}
\* a response whose text attribute is None
NoResponse == [present |-> FALSE, text |-> << >>, unfenced |-> << >>, wrapper |-> << >>]

\* The exception classes a failed model or data-source call may raise, as
\* the handlers of this repository tell them apart: json.JSONDecodeError
\* (a ValueError), another ValueError, any other Exception.
CallErrors == {"JSONDecodeError", "ValueError", "APIError"}

(***************************************************************************)
(* The dish aggregator: Counter(dishes).most_common(top_n)                  *)
(***************************************************************************)
\* str.lower() on the letters of the names below
Lower(s) ==
  LET LowerChar(c) ==
      CASE c = "A" -> "a" [] c = "B" -> "b" [] c = "C" -> "c" [] c = "D" -> "d"
        [] c = "E" -> "e" [] c = "F" -> "f" [] c = "G" -> "g" [] c = "H" -> "h"
        [] c = "I" -> "i" [] c = "J" -> "j" [] c = "K" -> "k" [] c = "L" -> "l"
        [] c = "M" -> "m" [] c = "N" -> "n" [] c = "O" -> "o" [] c = "P" -> "p"
        [] c = "Q" -> "q" [] c = "R" -> "r" [] c = "S" -> "s" [] c = "T" -> "t"
        [] c = "U" -> "u" [] c = "V" -> "v" [] c = "W" -> "w" [] c = "X" -> "x"
        [] c = "Y" -> "y" [] c = "Z" -> "z" [] OTHER -> c
  IN  [k \in 1..Len(s) |-> LowerChar(s[k])]

\* dict keys must be hashable: lists and dicts are not
Hashable(v) == Tag(v) \notin {"arr", "obj"}

\* a variant of HashKey that folds the case of names
HashKeyFolded(v) ==
  CASE Tag(v) = "true" -> JNum(<<"1">>)
    [] Tag(v) = "false" -> JNum(<<"0">>)
    [] Tag(v) = "str" -> JStr(Lower(Payload(v)))
    [] OTHER -> v

\* equal keys hash alike: True == 1 and False == 0 (number literals are
\* compared by their spelling; the answers drawn below hold no NaN, the one
\* value that is not equal to itself)
HashKey(v) ==
  CASE Tag(v) = "true" -> JNum(<<"1">>)
    [] Tag(v) = "false" -> JNum(<<"0">>)
    [] OTHER -> v

\* the value of a literal of decimal digits
RECURSIVE IntOf(_)
IntOf(lit) ==
  LET DigitValue(c) ==
      CASE c = "0" -> 0 [] c = "1" -> 1 [] c = "2" -> 2 [] c = "3" -> 3 [] c = "4" -> 4
        [] c = "5" -> 5 [] c = "6" -> 6 [] c = "7" -> 7 [] c = "8" -> 8 [] c = "9" -> 9
  IN  IF lit = << >> THEN 0
      ELSE 10 * IntOf(SubSeq(lit, 1, Len(lit) - 1)) + DigitValue(lit[Len(lit)])
IsIntLiteral(v) ==
  Tag(v) = "num" /\ \A i \in 1..Len(Payload(v)) : Payload(v)[i] \in Digits

\* Counter(iterable): one <<key, count>> per distinct key, in the order of
\* the keys' first occurrence (dict insertion order)
RECURSIVE CountInto(_, _, _)
CountInto(elems, i, acc) ==
  IF i > Len(elems) THEN acc
  ELSE
    LET e == elems[i]
        at == {k \in 1..Len(acc) : HashKey(acc[k][1]) = HashKey(e)}
    IN  IF at = {}
        THEN CountInto(elems, i + 1, Append(acc, <<e, 1>>))
        ELSE CountInto(elems, i + 1,
               [k \in 1..Len(acc) |->
                  IF k \in at THEN <<acc[k][1], acc[k][2] + 1>> ELSE acc[k]])

\* a variant of MostCommon that prefers the latest item of the largest count
RECURSIVE MostCommonLatest(_, _)
MostCommonLatest(items, n) ==
  IF n <= 0 \/ items = << >> THEN << >>
  ELSE
    LET best == CHOOSE k \in 1..Len(items) :
                  /\ \A j \in 1..Len(items) : items[j][2] <= items[k][2]
                  /\ \A j \in (k + 1)..Len(items) : items[j][2] < items[k][2]
        rest == [j \in 1..(Len(items) - 1) |->
                   IF j < best THEN items[j] ELSE items[j + 1]]
    IN  <<items[best]>> \o MostCommonLatest(rest, n - 1)

\* heapq.nlargest(n, items, key=itemgetter(1)), which is
\* sorted(items, key=..., reverse=True)[:n]: the earliest item of the
\* largest count first
RECURSIVE MostCommon(_, _)
MostCommon(items, n) ==
  IF n <= 0 \/ items = << >> THEN << >>
  ELSE
    LET best == CHOOSE k \in 1..Len(items) :
                  /\ \A j \in 1..Len(items) : items[j][2] <= items[k][2]
                  /\ \A j \in 1..(k - 1) : items[j][2] < items[k][2]
        rest == [j \in 1..(Len(items) - 1) |->
                   IF j < best THEN items[j] ELSE items[j + 1]]
    IN  <<items[best]>> \o MostCommon(rest, n - 1)

\* dish_extractor.py 89-97: the entries built from the (dish, count) pairs
Entries(pairs) ==
  [k \in 1..Len(pairs) |-> [name |-> pairs[k][1], mention_count |-> pairs[k][2]]]

\* dish_extractor.py 83: len(dishes) is defined for lists, strings and dicts
HasLen(v) == Tag(v) \in {"arr", "str", "obj"}

\* what Counter is given to iterate: the elements of a list, the characters
\* of a string
Iterated(v) ==
  IF Tag(v) = "str"
  THEN [k \in 1..Len(Payload(v)) |-> JStr(<<Payload(v)[k]>>)]
  ELSE Payload(v)

\* Counter(mapping) takes the mapping's values as the counts; order is a
\* listing of the keys (the dict's insertion order)
MappingItems(v, order) ==
  [k \in 1..Len(order) |->
     <<JStr(order[k]),
       IF IsIntLiteral(Field(v, order[k])) THEN IntOf(Payload(Field(v, order[k])))
       ELSE Field(v, order[k])>>]
Orders(v) ==
  {o \in [1..Cardinality(DOMAIN Payload(v)) -> DOMAIN Payload(v)] :
     \A i, j \in DOMAIN o : i # j => o[i] # o[j]}
\* most_common compares the counts of a mapping with two or more items
Orderable(v) ==
  Cardinality(DOMAIN Payload(v)) < 2
  \/ \A k \in DOMAIN Payload(v) : IsIntLiteral(Field(v, k))

\* dish_extractor.py 83-100 for the parsed value dishes and an item order
\* for the case that it is a dict: the list returned, or the exception
Aggregate(dishes, n, order) ==
  IF ~HasLen(dishes) THEN [exc |-> "TypeError", ret |-> << >>]
  ELSE IF Tag(dishes) = "obj"
  THEN IF n <= 0 \/ Orderable(dishes)
       THEN [exc |-> "none", ret |-> Entries(MostCommon(MappingItems(dishes, order), n))]
       ELSE [exc |-> "TypeError", ret |-> << >>]
  ELSE IF \E k \in 1..Len(Iterated(dishes)) : ~Hashable(Iterated(dishes)[k])
  THEN [exc |-> "TypeError", ret |-> << >>]
  ELSE [exc |-> "none", ret |-> Entries(MostCommon(CountInto(Iterated(dishes), 1, << >>), n))]

\* dish_extractor.py 102-108: the two handlers; the first one logs
\* result_text, which is unbound when the exception came before line 67
ExtractHandler(e, bound) ==
  IF e = "JSONDecodeError" /\ ~bound
  THEN [exc |-> "UnboundLocalError", ret |-> << >>]
  ELSE [exc |-> "none", ret |-> << >>]

(***************************************************************************)
(* The answers of the model in the dish pipeline                            *)
(***************************************************************************)
MaxDishes == 3
MaxTopN == 3
MaxReviews == 2

Ramen == <<"R", "a", "m", "e", "n">>
RamenLower == <<"r", "a", "m", "e", "n">>
Sushi == <<"S", "u", "s", "h", "i">>

\* json.dumps of a list of names: ["Ramen","Sushi"]
RECURSIVE JoinQuoted(_)
JoinQuoted(names) ==
  IF names = << >> THEN << >>
  ELSE <<Q>> \o names[1] \o <<Q>>
       \o (IF Len(names) > 1 THEN <<",">> ELSE << >>) \o JoinQuoted(Tail(names))
ArrayText(names) == <<"[">> \o JoinQuoted(names) \o <<"]">>

NameLists == UNION {[1..n -> {Ramen, RamenLower, Sushi}] : n \in 0..MaxDishes}
SpecExample ==
  <<Ramen, Sushi, Ramen, <<"T", "e", "m", "p", "u", "r", "a">>, Ramen, Sushi>>


DishResponses ==
  LET \* answers that are not an array of names
      OddDishTexts ==
      {
        \* {"a":1}
        <<"{", Q, "a", Q, ":", "1", "}">>,
        \* {"a":1,"b":2}
        <<"{", Q, "a", Q, ":", "1", ",", Q, "b", Q, ":", "2", "}">>,
        \* {"a":null,"b":2}
        <<"{", Q, "a", Q, ":", "n", "u", "l", "l", ",", Q, "b", Q, ":", "2",
          "}">>,
        \* "ab"
        <<Q, "a", "b", Q>>,
        \* [1,1]
        <<"[", "1", ",", "1", "]">>,
        \* [["Ramen"]]
        <<"[">> \o ArrayText(<<Ramen>>) \o <<"]">>,
        \* ["Ramen",]
        <<"[", Q>> \o Ramen \o <<Q, ",", "]">>,
        \* ["Ramen"<newline>"Sushi"]
        <<"[", Q>> \o Ramen \o <<Q, NL, Q>> \o Sushi \o <<Q, "]">>,
        \* ] x [
        <<"]", " ", "x", " ", "[">> }
      DishTexts ==
        {ArrayText(l) : l \in NameLists \cup {SpecExample}}
        \cup {FenceJson \o <<NL>> \o ArrayText(<<Ramen, Ramen>>) \o <<NL>> \o Fence,
              ProseBefore \o ArrayText(<<Sushi>>) \o ProseAfter,
              TxtNumber, TxtNull, TxtEmpty, TxtProse}
        \cup OddDishTexts
  IN  {[present |-> TRUE, text |-> t, unfenced |-> t, wrapper |-> << >>] : t \in DishTexts}

\* restaurant.py 99: the endpoint's top_n
EndpointTopN == 10

(***************************************************************************)
(* The fuzzy dish matcher.  Scores are rationals <<numerator, denominator>> *)
(* with a positive denominator.                                             *)
(***************************************************************************)
RatLess(a, b) == a[1] * b[2] < b[1] * a[2]
RatLeq(a, b) == a[1] * b[2] <= b[1] * a[2]

\* a in b  (substring)
In(a, b) == \E i \in 1..(Len(b) - Len(a) + 1) : StartsWithAt(b, i, a)

\* length of the common run of a from i and b from j, below ahi and bhi
RECURSIVE RunLength(_, _, _, _, _, _)
RunLength(a, b, i, j, ahi, bhi) ==
  IF i <= ahi /\ j <= bhi /\ a[i] = b[j]
  THEN 1 + RunLength(a, b, i + 1, j + 1, ahi, bhi)
  ELSE 0

\* difflib.SequenceMatcher.find_longest_match(alo, ahi, blo, bhi): the
\* longest block; of those the one starting earliest in a; of those the one
\* starting earliest in b.  <<i, j, k>>, with k = 0 when nothing matches.
LongestMatch(a, b, alo, ahi, blo, bhi) ==
  LET blocks == {<<i, j, RunLength(a, b, i, j, ahi, bhi)>> : i \in alo..ahi, j \in blo..bhi}
  IN  IF \A x \in blocks : x[3] = 0 THEN <<alo, blo, 0>>
      ELSE CHOOSE x \in blocks :
             \A y \in blocks :
               \/ y[3] < x[3]
               \/ y[3] = x[3] /\ x[1] < y[1]
               \/ y[3] = x[3] /\ x[1] = y[1] /\ x[2] <= y[2]

\* the total size of SequenceMatcher.get_matching_blocks(): the longest
\* block, then the same to its left and to its right
RECURSIVE MatchedChars(_, _, _, _, _, _)
MatchedChars(a, b, alo, ahi, blo, bhi) ==
  IF alo > ahi \/ blo > bhi THEN 0
  ELSE
    LET x == LongestMatch(a, b, alo, ahi, blo, bhi)
    IN  IF x[3] = 0 THEN 0
        ELSE x[3]
             + MatchedChars(a, b, alo, x[1] - 1, blo, x[2] - 1)
             + MatchedChars(a, b, x[1] + x[3], ahi, x[2] + x[3], bhi)

\* SequenceMatcher(None, a, b).ratio(): 2.0 * matches / length, 1.0 when
\* both are empty
Ratio(a, b) ==
  IF Len(a) + Len(b) = 0 THEN <<1, 1>>
  ELSE <<2 * MatchedChars(a, b, 1, Len(a), 1, Len(b)), Len(a) + Len(b)>>

SubstringScore == <<9, 10>>

\* a variant of Score that always uses the similarity ratio
ScoreByRatio(dish_lower, menu_lower) == Ratio(dish_lower, menu_lower)

\* dish_extractor.py 136-141: the score of an item that is not an exact match
Score(dish_lower, menu_lower) ==
  IF In(dish_lower, menu_lower) \/ In(menu_lower, dish_lower)
  THEN SubstringScore
  ELSE Ratio(dish_lower, menu_lower)

\* dish_extractor.py 133: the exact match
ExactMatch(dish_lower, menu_lower) == dish_lower = menu_lower

\* dish_extractor.py 143: a candidate replaces the best one so far
Better(score, best_score) == RatLess(best_score, score)

\* a variant of Accept with a strict comparison
AcceptStrict(best_match, best_score, threshold) ==
  IF RatLess(threshold, best_score) THEN best_match ELSE JNull

\* dish_extractor.py 147-151: the match returned after the loop
Accept(best_match, best_score, threshold) ==
  IF RatLeq(threshold, best_score) THEN best_match ELSE JNull

MaxMenu == 2

Tonkatsu == <<"t", "o", "n", "k", "a", "t", "s", "u">>
TonkatsuCurry ==
  <<"T", "o", "n", "k", "a", "t", "s", "u", " ", "C", "u", "r", "r", "y">>
Xyz123 == <<"x", "y", "z", "1", "2", "3">>
\* the names, among them Raman (a misspelling) and the empty name
MenuLists ==
  LET MatchNames ==
        {Tonkatsu, TonkatsuCurry, Ramen, RamenLower, <<"R", "a", "m", "a", "n">>, Xyz123, << >>}
  IN  UNION {[1..n -> MatchNames] : n \in 0..MaxMenu}

(***************************************************************************)
(* State                                                                    *)
(***************************************************************************)
VARIABLES
  settings,        \* core/config.py: which API keys are configured
  outbound,        \* the requests sent to Yelp and Google Places, in order
  sp,              \* search_places: use_exact_match, exact_result, the result
  op,              \* the operation in flight, "none" when idle
  pc,              \* its position
  call,            \* the model call of this operation: "none", "failed", "answered"
  response,        \* what the model call returned
  result_text,     \* the local result_text
  rt_bound,        \* whether result_text has been assigned
  json_str,        \* safe_json_parse: json_str
  json_str_fixed,  \* safe_json_parse: json_str_fixed
  attempts,        \* the parse attempts made so far, in order
  parsed,          \* the value json.loads returned
  exc,             \* the exception propagating, "none" when there is none
  ret,             \* the value the operation returned
  status,          \* HTTP status of the endpoint's answer, 0 before it
  clients,         \* genai.Client objects created by this operation
  model_calls,     \* generate_content calls issued by this operation
  reviews,         \* number of review texts
  top_n,           \* extract_popular_dishes: top_n
  m,               \* match_dish_to_menu: arguments and locals
  msg,             \* safe_json_parse: what the ValueError message is built from
  body,            \* parse_menu: the JSON body of a 200 answer, null otherwise
  target_language, \* the argument target_language, null for None
  prompt           \* the text build_multilingual_prompt returned, as lines

vars ==
  <<settings, outbound, sp, op, pc, call, response, result_text, rt_bound, json_str,
    json_str_fixed, attempts, parsed, exc, ret, status, clients, model_calls,
    reviews, top_n, m, msg, body, target_language, prompt>>

\* no message: error names the attempt whose JSONDecodeError is formatted
\* into the message, preview is the text that follows "JSON preview: "
NoMessage == [error |-> "none", preview |-> << >>]

NoMatcher ==
  [dish_name |-> << >>, menu_items |-> << >>, threshold |-> <<0, 1>>, i |-> 0,
   best_match |-> JNull, best_score |-> <<0, 1>>]

\* no answer of Google Places
NoPlaces == [status |-> "unset", results |-> 0]
NoSearch == [use_exact_match |-> FALSE, exact_result |-> NoPlaces, result |-> NoPlaces]

\* everything but settings, as it is when no operation is in flight
Idle ==
  /\ op = "none"
  /\ outbound = << >>
  /\ sp = NoSearch
  /\ pc = "idle"
  /\ call = "none"
  /\ response = NoResponse
  /\ result_text = << >>
  /\ rt_bound = FALSE
  /\ json_str = << >>
  /\ json_str_fixed = << >>
  /\ attempts = << >>
  /\ parsed = JNull
  /\ exc = "none"
  /\ ret = JNull
  /\ status = 0
  /\ clients = 0
  /\ model_calls = 0
  /\ reviews = 0
  /\ top_n = 0
  /\ m = NoMatcher
  /\ msg = NoMessage
  /\ body = JNull
  /\ target_language = JNull
  /\ prompt = << >>

\* the configurations: the keys of the two data sources are set together or
\* not at all; no endpoint reads both, so every endpoint meets every
\* combination of the keys it reads
Configurations ==
  {s \in [gemini_api_key : BOOLEAN, yelp_api_key : BOOLEAN,
          google_places_api_key : BOOLEAN] :
     s.yelp_api_key = s.google_places_api_key}

Init ==
  /\ settings \in Configurations
  /\ Idle

\* the operation has answered; the next one starts from a fresh frame
Return ==
  /\ pc = "done"
  /\ op' = "none"
  /\ outbound' = << >>
  /\ sp' = NoSearch
  /\ pc' = "idle"
  /\ call' = "none"
  /\ response' = NoResponse
  /\ result_text' = << >>
  /\ rt_bound' = FALSE
  /\ json_str' = << >>
  /\ json_str_fixed' = << >>
  /\ attempts' = << >>
  /\ parsed' = JNull
  /\ exc' = "none"
  /\ ret' = JNull
  /\ status' = 0
  /\ clients' = 0
  /\ model_calls' = 0
  /\ reviews' = 0
  /\ top_n' = 0
  /\ m' = NoMatcher
  /\ msg' = NoMessage
  /\ body' = JNull
  /\ target_language' = JNull
  /\ prompt' = << >>
  /\ UNCHANGED settings

(***************************************************************************)
(* POST /api/v1/menu/parse: main.parse_menu, vision_parser.parse_menu_image *)
(* and vision_parser.safe_json_parse                                        *)
(***************************************************************************)
\* main.py 75-78: the key check
ParseMenuRequest ==
  /\ pc = "idle"
  /\ op' = "parse_menu"
  /\ \E t \in {JNull, JStr(<<"E", "n">>)} : target_language' = t
  /\ IF ~settings.gemini_api_key
     THEN status' = 500 /\ pc' = "done"
     ELSE status' = 0 /\ pc' = "pm_prompt"
  /\ UNCHANGED <<outbound, sp, prompt, body, msg, settings, call, response, result_text, rt_bound, json_str,
                 json_str_fixed, attempts, parsed, exc, ret, clients,
                 model_calls, reviews, top_n, m>>

\* a variant of OnCallError that issues the call again
RetryCall(o) == IF o = "parse_menu" THEN "pm_call" ELSE "ep_call"

\* where an exception of the model call is taken: parse_menu_image has no
\* handler, so it reaches the handlers of parse_menu (main.py 100-107);
\* extract_popular_dishes catches it itself (dish_extractor.py 102-108)
OnCallError(o) == IF o = "parse_menu" THEN "pm_respond" ELSE "ep_except"

\* vision_parser.py 214-215: the image part and the prompt
PmPrompt ==
  /\ pc = "pm_prompt"
  /\ prompt' = BuildMultilingualPrompt(target_language)
  /\ pc' = "pm_call"
  /\ UNCHANGED <<outbound, sp, target_language, body, msg, settings, op, call, response, result_text,
                 rt_bound, json_str, json_str_fixed, attempts, parsed, exc, ret,
                 status, clients, model_calls, reviews, top_n, m>>

\* vision_parser.py 217-230: the client and the one generate_content call,
\* which is handed the prompt.  Neither prompt nor target_language is read
\* after the call: both are dropped here.
PmCall ==
  /\ pc = "pm_call"
  /\ prompt' = << >>
  /\ target_language' = JNull
  /\ clients' = clients + 1
  /\ model_calls' = model_calls + 1
  /\ \/ \E e \in CallErrors :
          /\ call' = "failed"
          /\ exc' = e
          /\ pc' = OnCallError(op)
          /\ UNCHANGED response
     \/ \E r \in Responses \cup {NoResponse} :
          /\ call' = "answered"
          /\ response' = r
          /\ pc' = "pm_text"
          /\ UNCHANGED exc
  /\ UNCHANGED <<outbound, sp, body, msg, settings, op, result_text, rt_bound, json_str, json_str_fixed,
                 attempts, parsed, ret, status, reviews, top_n, m>>

\* vision_parser.py 232: result_text = response.text.strip()
PmText ==
  /\ pc = "pm_text"
  /\ IF response.present
     THEN /\ result_text' = Strip(response.text)
          /\ rt_bound' = TRUE
          /\ pc' = "sjp_fences"
          /\ UNCHANGED exc
     ELSE /\ exc' = "AttributeError"
          /\ pc' = "pm_respond"
          /\ UNCHANGED <<result_text, rt_bound>>
  /\ UNCHANGED <<outbound, sp, target_language, prompt,
                 body, msg, settings, op, call, response, json_str, json_str_fixed,
                 attempts, parsed, ret, status, clients, model_calls, reviews,
                 top_n, m>>

\* vision_parser.py 153-158: strip, then the three fence substitutions
SjpFences ==
  /\ pc = "sjp_fences"
  /\ json_str' = RemoveFences(Strip(result_text))
  /\ pc' = "sjp_isolate"
  /\ UNCHANGED <<outbound, sp, target_language, prompt,
                 body, msg, settings, op, call, response, result_text, rt_bound,
                 json_str_fixed, attempts, parsed, exc, ret, status, clients,
                 model_calls, reviews, top_n, m>>

\* vision_parser.py 160-164: the text from the first { to the last }
SjpIsolate ==
  /\ pc = "sjp_isolate"
  /\ json_str' = Isolate(json_str, "{", "}")
  /\ pc' = "sjp_direct"
  /\ UNCHANGED <<outbound, sp, target_language, prompt,
                 body, msg, settings, op, call, response, result_text, rt_bound,
                 json_str_fixed, attempts, parsed, exc, ret, status, clients,
                 model_calls, reviews, top_n, m>>

\* one parse attempt on text t: return the value, or go on to pc value next
Attempt(name, t, next) ==
  /\ attempts' = Append(attempts, name)
  /\ IF JsonLoads(t).ok
     THEN parsed' = JsonLoads(t).val /\ pc' = "pm_assemble"
     ELSE parsed' = parsed /\ pc' = next

\* vision_parser.py 166-170: the direct parse
SjpDirect ==
  /\ pc = "sjp_direct"
  /\ Attempt("direct", json_str, "sjp_trailing")
  /\ UNCHANGED <<outbound, sp, target_language, prompt,
                 body, msg, settings, op, call, response, result_text, rt_bound, json_str,
                 json_str_fixed, exc, ret, status, clients, model_calls,
                 reviews, top_n, m>>

\* vision_parser.py 172-179: the trailing-comma repair and its parse
SjpTrailing ==
  /\ pc = "sjp_trailing"
  /\ json_str_fixed' = RemoveTrailingCommas(json_str)
  /\ Attempt("trailing", json_str_fixed', "sjp_missing")
  /\ UNCHANGED <<outbound, sp, target_language, prompt,
                 body, msg, settings, op, call, response, result_text, rt_bound, json_str,
                 exc, ret, status, clients, model_calls, reviews, top_n, m>>

\* a variant of LastAttempt that substitutes an empty object for the error
LastAttemptDefault(r, text) ==
  IF r.ok THEN [exc |-> "none", val |-> r.val, msg |-> NoMessage]
  ELSE [exc |-> "none", val |-> EmptyObj, msg |-> NoMessage]

\* a variant of Preview that carries the whole text
PreviewWhole(text) == text
\* vision_parser.py 189: json_str[:500]
Preview(text) == Slice(text, 1, Min(PreviewLen, Len(text)))

\* vision_parser.py 185-190: what the last attempt ends in
\* the message is built from the JSONDecodeError of this attempt and from
\* json_str, the text the first attempt was made on
LastAttempt(r, text) ==
  IF r.ok THEN [exc |-> "none", val |-> r.val, msg |-> NoMessage]
  ELSE [exc |-> "ValueError", val |-> JNull,
        msg |-> [error |-> "missing", preview |-> Preview(text)]]

\* vision_parser.py 181-190: the missing-comma repair, its parse, and the
\* ValueError when that fails too
SjpMissing ==
  /\ pc = "sjp_missing"
  /\ json_str_fixed' = InsertMissingCommas(json_str_fixed)
  /\ attempts' = Append(attempts, "missing")
  /\ LET out == LastAttempt(JsonLoads(json_str_fixed'), json_str)
     IN  /\ exc' = out.exc
         /\ parsed' = out.val
         /\ msg' = out.msg
         /\ pc' = IF out.exc = "none" THEN "pm_assemble" ELSE "pm_respond"
  /\ UNCHANGED <<outbound, sp, target_language, prompt,
                 body, settings, op, call, response, result_text, rt_bound, json_str,
                 ret, status, clients, model_calls, reviews, top_n, m>>

\* vision_parser.py 241: the ParsedMenu built from the parsed value
PmAssemble ==
  /\ pc = "pm_assemble"
  /\ exc' = Assemble(parsed).exc
  /\ ret' = Assemble(parsed).menu
  /\ pc' = "pm_respond"
  /\ UNCHANGED <<outbound, sp, target_language, prompt,
                 body, msg, settings, op, call, response, result_text, rt_bound, json_str,
                 json_str_fixed, attempts, parsed, status, clients, model_calls,
                 reviews, top_n, m>>

\* main.py 98-107: the answer for what parse_menu_image returned or raised
ParseMenuStatus(e) ==
  IF e = "none" THEN 200
  \* JSONDecodeError and pydantic's ValidationError are ValueErrors
  ELSE IF e \in {"JSONDecodeError", "ValueError", "ValidationError"} THEN 400
  ELSE 500

PmRespond ==
  /\ pc = "pm_respond"
  /\ status' = ParseMenuStatus(exc)
  /\ body' = IF exc = "none" THEN Serialize(ret[2]) ELSE JNull
  /\ pc' = "done"
  /\ UNCHANGED <<outbound, sp, target_language, prompt,
                 msg, settings, op, call, response, result_text, rt_bound, json_str,
                 json_str_fixed, attempts, parsed, exc, ret, clients,
                 model_calls, reviews, top_n, m>>

(***************************************************************************)
(* dish_extractor.extract_popular_dishes, called directly or by             *)
(* GET /api/v1/restaurant/{business_id} (restaurant.get_restaurant)         *)
(***************************************************************************)
\* where control goes when extract_popular_dishes has returned or raised
AfterExtract ==
  CASE op = "get_restaurant" -> "gr_respond"
    [] op = "get_place" -> "gp_respond"
    [] OTHER -> "done"

\* a direct call extract_popular_dishes(reviews, api_key, top_n)
ExtractRequest ==
  /\ pc = "idle"
  /\ op' = "extract_popular_dishes"
  /\ \E n \in 0..MaxReviews : reviews' = n
  /\ \E n \in 0..MaxTopN : top_n' = n
  /\ pc' = "ep_guard"
  /\ UNCHANGED <<outbound, sp, target_language, prompt,
                 body, msg, settings, call, response, result_text, rt_bound, json_str,
                 json_str_fixed, attempts, parsed, exc, ret, status, clients,
                 model_calls, m>>

\* a variant of EmptyReviews without the short-circuit
EmptyReviewsIgnored(n) == FALSE

\* dish_extractor.py 48-50: no reviews, no call
EmptyReviews(n) == n = 0

EpGuard ==
  /\ pc = "ep_guard"
  /\ IF EmptyReviews(reviews)
     THEN ret' = JArr(<< >>) /\ pc' = AfterExtract
     ELSE ret' = ret /\ pc' = "ep_call"
  /\ UNCHANGED <<outbound, sp, target_language, prompt,
                 body, msg, settings, op, call, response, result_text, rt_bound, json_str,
                 json_str_fixed, attempts, parsed, exc, status, clients,
                 model_calls, reviews, top_n, m>>

\* dish_extractor.py 59-65: the client and the one generate_content call
EpCall ==
  /\ pc = "ep_call"
  /\ clients' = clients + 1
  /\ model_calls' = model_calls + 1
  /\ \/ \E e \in CallErrors :
          /\ call' = "failed"
          /\ exc' = e
          /\ pc' = OnCallError(op)
          /\ UNCHANGED response
     \/ \E r \in DishResponses \cup {NoResponse} :
          /\ call' = "answered"
          /\ response' = r
          /\ pc' = "ep_text"
          /\ UNCHANGED exc
  /\ UNCHANGED <<outbound, sp, target_language, prompt,
                 body, msg, settings, op, result_text, rt_bound, json_str, json_str_fixed,
                 attempts, parsed, ret, status, reviews, top_n, m>>

\* dish_extractor.py 67-68: result_text = response.text.strip()
EpText ==
  /\ pc = "ep_text"
  /\ IF response.present
     THEN /\ result_text' = Strip(response.text)
          /\ rt_bound' = TRUE
          /\ pc' = "ep_fences"
          /\ UNCHANGED exc
     ELSE /\ exc' = "AttributeError"
          /\ pc' = "ep_except"
          /\ UNCHANGED <<result_text, rt_bound>>
  /\ UNCHANGED <<outbound, sp, target_language, prompt,
                 body, msg, settings, op, call, response, json_str, json_str_fixed,
                 attempts, parsed, ret, status, clients, model_calls, reviews,
                 top_n, m>>

\* dish_extractor.py 72-74: the three fence substitutions
EpFences ==
  /\ pc = "ep_fences"
  /\ result_text' = RemoveFences(result_text)
  /\ pc' = "ep_isolate"
  /\ UNCHANGED <<outbound, sp, target_language, prompt,
                 body, msg, settings, op, call, response, rt_bound, json_str,
                 json_str_fixed, attempts, parsed, exc, ret, status, clients,
                 model_calls, reviews, top_n, m>>

\* dish_extractor.py 77-80: the text from the first [ to the last ]
EpIsolate ==
  /\ pc = "ep_isolate"
  /\ result_text' = Isolate(result_text, "[", "]")
  /\ pc' = "ep_loads"
  /\ UNCHANGED <<outbound, sp, target_language, prompt,
                 body, msg, settings, op, call, response, rt_bound, json_str,
                 json_str_fixed, attempts, parsed, exc, ret, status, clients,
                 model_calls, reviews, top_n, m>>

\* dish_extractor.py 82: dishes = json.loads(result_text), the only attempt
EpLoads ==
  /\ pc = "ep_loads"
  /\ attempts' = Append(attempts, "direct")
  /\ IF JsonLoads(result_text).ok
     THEN parsed' = JsonLoads(result_text).val /\ exc' = exc /\ pc' = "ep_count"
     ELSE parsed' = parsed /\ exc' = "JSONDecodeError" /\ pc' = "ep_except"
  /\ UNCHANGED <<outbound, sp, target_language, prompt,
                 body, msg, settings, op, call, response, result_text, rt_bound, json_str,
                 json_str_fixed, ret, status, clients, model_calls, reviews,
                 top_n, m>>

\* dish_extractor.py 83-100: count and return the top_n entries
EpCount ==
  /\ pc = "ep_count"
  /\ \E order \in (IF Tag(parsed) = "obj" THEN Orders(parsed) ELSE {<< >>}) :
       LET out == Aggregate(parsed, top_n, order)
       IN  IF out.exc = "none"
           THEN ret' = JArr(out.ret) /\ exc' = exc /\ pc' = AfterExtract
           ELSE ret' = ret /\ exc' = out.exc /\ pc' = "ep_except"
  /\ UNCHANGED <<outbound, sp, target_language, prompt,
                 body, msg, settings, op, call, response, result_text, rt_bound, json_str,
                 json_str_fixed, attempts, parsed, status, clients, model_calls,
                 reviews, top_n, m>>

\* dish_extractor.py 102-108: the exception handlers
EpExcept ==
  /\ pc = "ep_except"
  /\ exc' = ExtractHandler(exc, rt_bound).exc
  /\ ret' = IF ExtractHandler(exc, rt_bound).exc = "none"
            THEN JArr(ExtractHandler(exc, rt_bound).ret) ELSE ret
  /\ pc' = AfterExtract
  /\ UNCHANGED <<outbound, sp, target_language, prompt,
                 body, msg, settings, op, call, response, result_text, rt_bound, json_str,
                 json_str_fixed, attempts, parsed, status, clients, model_calls,
                 reviews, top_n, m>>

\* restaurant.py 70-78: the two key checks
GetRestaurantRequest ==
  /\ pc = "idle"
  /\ op' = "get_restaurant"
  /\ IF ~settings.yelp_api_key \/ ~settings.gemini_api_key
     THEN status' = 500 /\ pc' = "done"
     ELSE status' = 0 /\ pc' = "gr_data"
  /\ UNCHANGED <<outbound, sp, target_language, prompt,
                 body, msg, settings, call, response, result_text, rt_bound, json_str,
                 json_str_fixed, attempts, parsed, exc, ret, clients,
                 model_calls, reviews, top_n, m>>

\* restaurant.py 83-103: the Yelp data, then the dishes of its reviews
GrData ==
  /\ pc = "gr_data"
  \* yelp_service.py 146-147: the details, then the reviews; either may raise
  /\ \/ \E e \in CallErrors, sent \in {<<"yelp_details">>, <<"yelp_details", "yelp_reviews">>} :
          /\ outbound' = outbound \o sent
          /\ exc' = e
          /\ pc' = "gr_respond"
          /\ UNCHANGED <<reviews, top_n, ret>>
     \/ \E n \in 0..MaxReviews :
          /\ outbound' = outbound \o <<"yelp_details", "yelp_reviews">>
          /\ reviews' = n
          /\ IF n # 0
             THEN top_n' = EndpointTopN /\ ret' = ret /\ pc' = "ep_guard"
             ELSE top_n' = top_n /\ ret' = JArr(<< >>) /\ pc' = "gr_respond"
          /\ UNCHANGED exc
  /\ UNCHANGED <<sp, target_language, prompt,
                 body, msg, settings, op, call, response, result_text, rt_bound, json_str,
                 json_str_fixed, attempts, parsed, status, clients, model_calls,
                 m>>

\* models/restaurant.py 70-76: PopularDish, as the response model checks it
ValidPopularDish(e) ==
  /\ Tag(e.name) = "str"
  /\ e.mention_count \in Int

\* restaurant.py 105-115: the answer
GetRestaurantStatus(e, dishes) ==
  IF e # "none" THEN 500
  ELSE IF \A k \in 1..Len(Payload(dishes)) : ValidPopularDish(Payload(dishes)[k])
  THEN 200
  ELSE 500

GrRespond ==
  /\ pc = "gr_respond"
  /\ status' = GetRestaurantStatus(exc, ret)
  /\ pc' = "done"
  /\ UNCHANGED <<outbound, sp, target_language, prompt,
                 body, msg, settings, op, call, response, result_text, rt_bound, json_str,
                 json_str_fixed, attempts, parsed, exc, ret, clients,
                 model_calls, reviews, top_n, m>>

(***************************************************************************)
(* POST /api/v1/restaurant/search (restaurant.search_restaurant)            *)
(***************************************************************************)
\* restaurant.py 35-38: the key check
SearchRestaurantRequest ==
  /\ pc = "idle"
  /\ op' = "search_restaurant"
  /\ IF ~settings.yelp_api_key
     THEN status' = 500 /\ pc' = "done"
     ELSE status' = 0 /\ pc' = "sr_call"
  /\ UNCHANGED <<outbound, sp, target_language, prompt,
                 body, msg, settings, call, response, result_text, rt_bound, json_str,
                 json_str_fixed, attempts, parsed, exc, ret, clients,
                 model_calls, reviews, top_n, m>>

\* restaurant.py 42-54, yelp_service.py 43-65: the search and the answer; a
\* failure of the request is raised again and answered with 500
SrCall ==
  /\ pc = "sr_call"
  /\ outbound' = Append(outbound, "yelp_search")
  /\ \/ \E e \in CallErrors : exc' = e /\ status' = 500
     \/ exc' = exc /\ status' = 200
  /\ pc' = "done"
  /\ UNCHANGED <<sp, target_language, prompt,
                 body, msg, settings, op, call, response, result_text, rt_bound, json_str,
                 json_str_fixed, attempts, parsed, ret, clients,
                 model_calls, reviews, top_n, m>>

(***************************************************************************)
(* GooglePlacesService.search_places, called directly or by                 *)
(* POST /api/v1/places/search (google_places.search_places)                 *)
(***************************************************************************)
MaxCandidates == 2

\* what a request of the Places API answers: the status of the body ("none"
\* when the body holds none) and the number of places in it
PlacesAnswers ==
  [status : {"OK", "ZERO_RESULTS", "REQUEST_DENIED", "none"}, results : 0..MaxCandidates]

\* google_places_service.py 96-98: a failed request is answered as ERROR.  A
\* failed request is a requests.exceptions.RequestException: no connection,
\* a timeout, an HTTP error status, and (requests 2.27 and later) a body that
\* is not JSON
FindPlaceFailed == [status |-> "ERROR", results |-> 0]

\* a variant of ExactFound that looks at the places only
ExactFoundAnyStatus(r) == r.results > 0

\* google_places_service.py 56: the exact match is taken
ExactFound(r) == r.status = "OK" /\ r.results > 0

\* google_places_service.py 52: the first request of search_places
SpEntry(use_exact_match) == IF use_exact_match THEN "sp_find" ELSE "sp_text"
\* where search_places returns to, or raises to
SpReturn == IF op = "places_search" THEN "ps_respond" ELSE "done"

\* google_places_service.py 29-35: search_places called with either flag
SearchPlacesCall ==
  /\ pc = "idle"
  /\ op' = "search_places"
  /\ \E b \in BOOLEAN :
       /\ sp' = [sp EXCEPT !.use_exact_match = b]
       /\ pc' = SpEntry(b)
  /\ UNCHANGED <<outbound, target_language, prompt,
                 body, msg, settings, call, response, result_text, rt_bound, json_str,
                 json_str_fixed, attempts, parsed, exc, ret, status, clients,
                 model_calls, reviews, top_n, m>>

\* google_places.py 32-49: the key check, then search_places without the
\* exact match
PlacesSearchRequest ==
  /\ pc = "idle"
  /\ op' = "places_search"
  /\ IF ~settings.google_places_api_key
     THEN status' = 500 /\ pc' = "done"
     ELSE status' = 0 /\ pc' = SpEntry(FALSE)
  /\ UNCHANGED <<outbound, sp, target_language, prompt,
                 body, msg, settings, call, response, result_text, rt_bound, json_str,
                 json_str_fixed, attempts, parsed, exc, ret, clients,
                 model_calls, reviews, top_n, m>>

\* google_places_service.py 52-61 and 85-98: the Find Place request and what
\* search_places does with its answer
SpFindPlace ==
  /\ pc = "sp_find"
  /\ outbound' = Append(outbound, "find_place")
  /\ \E r \in PlacesAnswers \cup {FindPlaceFailed} :
       /\ sp' = [sp EXCEPT !.exact_result = r,
                           !.result = IF ExactFound(r) THEN r ELSE @]
       /\ pc' = IF ExactFound(r) THEN SpReturn ELSE "sp_text"
  /\ UNCHANGED <<target_language, prompt,
                 body, msg, settings, op, call, response, result_text, rt_bound, json_str,
                 json_str_fixed, attempts, parsed, exc, ret, status, clients,
                 model_calls, reviews, top_n, m>>

\* google_places_service.py 63 and 123-139: the text search; a failed
\* request is raised again
SpTextSearch ==
  /\ pc = "sp_text"
  /\ outbound' = Append(outbound, "text_search")
  /\ \/ exc' = "RequestException" /\ sp' = sp
     \/ \E r \in PlacesAnswers : sp' = [sp EXCEPT !.result = r] /\ exc' = exc
  /\ pc' = SpReturn
  /\ UNCHANGED <<target_language, prompt,
                 body, msg, settings, op, call, response, result_text, rt_bound, json_str,
                 json_str_fixed, attempts, parsed, ret, status, clients,
                 model_calls, reviews, top_n, m>>

\* google_places.py 51-59: the answer; models/google_places.py 70-73: the
\* status of PlaceSearchResponse is a str (the places are taken to fit
\* GooglePlace)
PsRespond ==
  /\ pc = "ps_respond"
  /\ status' = IF exc = "none" /\ sp.result.status # "none" THEN 200 ELSE 500
  /\ pc' = "done"
  /\ UNCHANGED <<outbound, sp, target_language, prompt,
                 body, msg, settings, op, call, response, result_text, rt_bound, json_str,
                 json_str_fixed, attempts, parsed, exc, ret, clients,
                 model_calls, reviews, top_n, m>>

(***************************************************************************)
(* GET /api/v1/places/{place_id} (google_places.get_place)                  *)
(***************************************************************************)
\* a variant of GetPlaceRequest that checks the model key after the data
GetPlaceRequestLateModelKey ==
  /\ pc = "idle"
  /\ op' = "get_place"
  /\ IF ~settings.google_places_api_key
     THEN status' = 500 /\ pc' = "done"
     ELSE status' = 0 /\ pc' = "gp_data"
  /\ UNCHANGED <<outbound, sp, target_language, prompt,
                 body, msg, settings, call, response, result_text, rt_bound, json_str,
                 json_str_fixed, attempts, parsed, exc, ret, clients,
                 model_calls, reviews, top_n, m>>

\* google_places.py 75-83: the two key checks
GetPlaceRequest ==
  /\ pc = "idle"
  /\ op' = "get_place"
  /\ IF ~settings.google_places_api_key \/ ~settings.gemini_api_key
     THEN status' = 500 /\ pc' = "done"
     ELSE status' = 0 /\ pc' = "gp_data"
  /\ UNCHANGED <<outbound, sp, target_language, prompt,
                 body, msg, settings, call, response, result_text, rt_bound, json_str,
                 json_str_fixed, attempts, parsed, exc, ret, clients,
                 model_calls, reviews, top_n, m>>

\* google_places.py 88-108, google_places_service.py 141-174: the details
\* request (a failed request and a status other than OK raise), then the
\* dishes of the reviews that have a text
GpData ==
  /\ pc = "gp_data"
  /\ outbound' = Append(outbound, "place_details")
  /\ \/ \E e \in {"RequestException", "ValueError"} :
          /\ exc' = e
          /\ pc' = "gp_respond"
          /\ UNCHANGED <<reviews, top_n, ret>>
     \/ \E n \in 0..MaxReviews :
          /\ reviews' = n
          /\ IF n # 0
             THEN top_n' = EndpointTopN /\ ret' = ret /\ pc' = "ep_guard"
             ELSE top_n' = top_n /\ ret' = JArr(<< >>) /\ pc' = "gp_respond"
          /\ UNCHANGED exc
  /\ UNCHANGED <<sp, target_language, prompt,
                 body, msg, settings, op, call, response, result_text, rt_bound, json_str,
                 json_str_fixed, attempts, parsed, status, clients, model_calls,
                 m>>

\* google_places.py 110-120: the answer; models/google_places.py 80:
\* popular_dishes is a list of dicts, whatever the entries hold
GpRespond ==
  /\ pc = "gp_respond"
  /\ status' = IF exc = "none" THEN 200 ELSE 500
  /\ pc' = "done"
  /\ UNCHANGED <<outbound, sp, target_language, prompt,
                 body, msg, settings, op, call, response, result_text, rt_bound, json_str,
                 json_str_fixed, attempts, parsed, exc, ret, clients,
                 model_calls, reviews, top_n, m>>

(***************************************************************************)
(* dish_extractor.match_dish_to_menu                                        *)
(***************************************************************************)
\* dish_extractor.py 124-127: the call and the initial locals
MatchRequest ==
  /\ pc = "idle"
  /\ op' = "match_dish_to_menu"
  \* the thresholds 0, 0.7 (the default), 0.9, 1.0, 1.5
  /\ \E d \in {Tonkatsu, Ramen, << >>}, items \in MenuLists,
        t \in {<<0, 1>>, <<7, 10>>, <<9, 10>>, <<1, 1>>, <<3, 2>>} :
       m' = [dish_name |-> d, menu_items |-> items, threshold |-> t, i |-> 1,
             best_match |-> JNull, best_score |-> <<0, 1>>]
  /\ pc' = "md_loop"
  /\ UNCHANGED <<outbound, sp, target_language, prompt,
                 body, msg, settings, call, response, result_text, rt_bound, json_str,
                 json_str_fixed, attempts, parsed, exc, ret, status, clients,
                 model_calls, reviews, top_n>>

\* dish_extractor.py 129-145: one iteration of the loop over menu_items
MdIter ==
  /\ pc = "md_loop"
  /\ m.i <= Len(m.menu_items)
  /\ LET menu_item == m.menu_items[m.i]
         dish_lower == Lower(m.dish_name)
         menu_lower == Lower(menu_item)
         score == Score(dish_lower, menu_lower)
     IN  IF ExactMatch(dish_lower, menu_lower)
         THEN ret' = JStr(menu_item) /\ pc' = "done" /\ m' = m
         ELSE /\ m' = IF Better(score, m.best_score)
                      THEN [m EXCEPT !.i = @ + 1, !.best_score = score,
                                     !.best_match = JStr(menu_item)]
                      ELSE [m EXCEPT !.i = @ + 1]
              /\ UNCHANGED <<ret, pc>>
  /\ UNCHANGED <<outbound, sp, target_language, prompt,
                 body, msg, settings, op, call, response, result_text, rt_bound, json_str,
                 json_str_fixed, attempts, parsed, exc, status, clients,
                 model_calls, reviews, top_n>>

(***************************************************************************)
(* vision_parser.build_multilingual_prompt called on its own                *)
(***************************************************************************)
BuildPromptRequest ==
  /\ pc = "idle"
  /\ op' = "build_multilingual_prompt"
  /\ \E t \in {JNull, JStr(<< >>), JStr(<<"E", "n">>), JStr(<<"f", "r">>)} :
       /\ target_language' = t
       /\ prompt' = BuildMultilingualPrompt(t)
  /\ pc' = "done"
  /\ UNCHANGED <<outbound, sp, body, msg, settings, call, response, result_text, rt_bound, json_str,
                 json_str_fixed, attempts, parsed, exc, ret, status, clients,
                 model_calls, reviews, top_n, m>>

\* dish_extractor.py 147-151: after the loop
MdFinish ==
  /\ pc = "md_loop"
  /\ m.i > Len(m.menu_items)
  /\ ret' = Accept(m.best_match, m.best_score, m.threshold)
  /\ pc' = "done"
  /\ UNCHANGED <<outbound, sp, target_language, prompt,
                 body, msg, settings, op, call, response, result_text, rt_bound, json_str,
                 json_str_fixed, attempts, parsed, exc, status, clients,
                 model_calls, reviews, top_n, m>>

Next ==
  \/ ParseMenuRequest
  \/ PmPrompt
  \/ PmCall
  \/ PmText
  \/ SjpFences
  \/ SjpIsolate
  \/ SjpDirect
  \/ SjpTrailing
  \/ SjpMissing
  \/ PmAssemble
  \/ PmRespond
  \/ ExtractRequest
  \/ EpGuard
  \/ EpCall
  \/ EpText
  \/ EpFences
  \/ EpIsolate
  \/ EpLoads
  \/ EpCount
  \/ EpExcept
  \/ GetRestaurantRequest
  \/ GrData
  \/ GrRespond
  \/ SearchRestaurantRequest
  \/ SrCall
  \/ SearchPlacesCall
  \/ PlacesSearchRequest
  \/ SpFindPlace
  \/ SpTextSearch
  \/ PsRespond
  \/ GetPlaceRequest
  \/ GpData
  \/ GpRespond
  \/ MatchRequest
  \/ MdIter
  \/ MdFinish
  \/ BuildPromptRequest
  \/ Return

Spec == Init /\ [][Next]_vars

(***************************************************************************)
(* Properties                                                               *)
(***************************************************************************)
\* safe_json_parse has returned a value to parse_menu_image
SjpReturned == op = "parse_menu" /\ pc = "pm_assemble"
\* safe_json_parse has raised its ValueError
SjpRaised ==
  /\ op = "parse_menu"
  /\ pc = "pm_respond"
  /\ call = "answered"
  /\ Len(attempts) = 3
  /\ exc = "ValueError"
\* the model answered with a text
Answered(o) == op = o /\ call = "answered" /\ response.present

\* C1 as stated: for every text that is already valid JSON, whatever its
\* top-level value, safe_json_parse returns the strict parse of the text.
C1_ValidJsonUnchanged ==
  (Answered("parse_menu") /\ (SjpReturned \/ SjpRaised) /\ JsonLoads(response.text).ok)
    => (SjpReturned /\ parsed = JsonLoads(response.text).val)

\* C1 amended: for every text that is already valid JSON and whose top-level
\* value is an object, or in which no { or no } occurs, safe_json_parse
\* returns the strict parse of the text, whatever its strings contain.
C1_ValidObjectUnchanged ==
  (/\ Answered("parse_menu")
   /\ SjpReturned \/ SjpRaised
   /\ JsonLoads(response.text).ok
   /\ \/ Tag(JsonLoads(response.text).val) = "obj"
      \/ Find(response.text, "{") = 0
      \/ Find(response.text, "}") = 0)
    => (SjpReturned /\ parsed = JsonLoads(response.text).val)

\* a valid object with a closing brace inside a string came back unchanged
C1_Witness ==
  /\ Answered("parse_menu")
  /\ SjpReturned
  /\ response.text = TxtBraceInString
  /\ parsed = JObj(<<"a">> :> JStr(<<"}">>))

\* C2: when the direct parse and both repairs fail on the model text,
\* safe_json_parse raises its ValueError and the request ends without a
\* ParsedMenu: nothing is substituted for the unrecoverable text.
AllAttemptsFail(t) ==
  /\ ~JsonLoads(t).ok
  /\ ~JsonLoads(RemoveTrailingCommas(t)).ok
  /\ ~JsonLoads(InsertMissingCommas(RemoveTrailingCommas(t))).ok
C2_UnrecoverableRaises ==
  (/\ Answered("parse_menu")
   /\ pc \in {"pm_assemble", "pm_respond", "done"}
   /\ AllAttemptsFail(json_str))
    => (/\ pc # "pm_assemble"
        /\ exc = "ValueError"
        /\ parsed = JNull
        /\ ret = JNull
        /\ pc = "done" => status # 200)

\* an empty or blank model text has ended in the error, without a menu
C2_Witness ==
  /\ Answered("parse_menu")
  /\ pc = "done"
  /\ response.text \in {TxtEmpty, TxtBlank}
  /\ response.wrapper = << >>
  /\ exc = "ValueError"
  /\ ret = JNull

\* C3: on the menu parse path a text that cannot be turned into a menu is
\* answered with 400 and a failed model call (network, auth, quota) with
\* 500, never the other way round.
C3_FailureKindsDistinct ==
  (op = "parse_menu" /\ pc = "done")
    => (/\ (call = "answered" /\ response.present /\ ret = JNull) => status = 400
        /\ (call = "failed" /\ exc = "APIError") => status = 500)

\* extract_popular_dishes has returned or raised
ExtractFinished ==
  \/ op = "extract_popular_dishes" /\ pc = "done"
  \/ op = "get_restaurant" /\ pc = "gr_respond" /\ model_calls > 0
  \/ op = "get_place" /\ pc = "gp_respond" /\ model_calls > 0

\* C4: extract_popular_dishes never raises; it returns a list, the empty
\* list when the call or the parse failed, and the restaurant request
\* then still succeeds.
C4_ExtractNeverRaises ==
  /\ ExtractFinished =>
       /\ exc = "none"
       /\ Tag(ret) = "arr"
       /\ (call = "failed" \/ (call = "answered" /\ Len(attempts) = 0)
             \/ (Len(attempts) = 1 /\ ~JsonLoads(result_text).ok))
            => ret = JArr(<< >>)
  /\ (op = "get_restaurant" /\ pc = "done" /\ call = "failed") => status = 200

\* C5: with no reviews extract_popular_dishes returns the empty list, and
\* at no point of that invocation is a client created or a call issued.
C5_EmptyReviewsNoCall ==
  (op = "extract_popular_dishes" /\ reviews = 0)
    => (/\ clients = 0
        /\ model_calls = 0
        /\ call = "none"
        /\ pc \in {"ep_guard", "done"}
        /\ pc = "done" => (ret = JArr(<< >>) /\ exc = "none"))

\* the invocation with no reviews has returned
C5_Witness ==
  /\ op = "extract_popular_dishes"
  /\ reviews = 0
  /\ pc = "done"
  /\ ret = JArr(<< >>)
  /\ model_calls = 0

\* extract_popular_dishes has finished on a parsed array of dish names
CountedNames ==
  /\ ExtractFinished
  /\ call = "answered"
  /\ Tag(parsed) = "arr"
  /\ \A k \in 1..Len(Payload(parsed)) : Tag(Payload(parsed)[k]) = "str"
\* the number of occurrences of the string x in the parsed array
Occurrences(x) == Cardinality({k \in 1..Len(Payload(parsed)) : Payload(parsed)[k] = x})
\* the position of the first occurrence of x in the parsed array
FirstIndex(x) ==
  CHOOSE k \in 1..Len(Payload(parsed)) :
    Payload(parsed)[k] = x /\ \A j \in 1..(k - 1) : Payload(parsed)[j] # x
\* the names returned, in order
Returned == [k \in 1..Len(Payload(ret)) |-> Payload(ret)[k].name]

\* C6: given an array of dish names and a limit N, the list returned holds
\* at most N entries, all of them names of the array and no name twice, in
\* non-increasing order of count, names of equal count in the order of
\* their first occurrence; no name left out is more frequent than, or as
\* frequent as and earlier than, a returned one.  The six-name example
\* with N = 2 gives Ramen (3), Sushi (2).
C6_TopNOrder ==
  CountedNames =>
    /\ exc = "none"
    /\ Tag(ret) = "arr"
    /\ Len(Returned) =
         Min(top_n, Cardinality({Payload(parsed)[k] : k \in 1..Len(Payload(parsed))}))
    /\ \A i \in 1..Len(Returned) :
         /\ Occurrences(Returned[i]) > 0
         /\ \A j \in (i + 1)..Len(Returned) :
              /\ Returned[i] # Returned[j]
              /\ Occurrences(Returned[i]) >= Occurrences(Returned[j])
              /\ Occurrences(Returned[i]) = Occurrences(Returned[j])
                   => FirstIndex(Returned[i]) < FirstIndex(Returned[j])
         /\ \A k \in 1..Len(Payload(parsed)) :
              LET x == Payload(parsed)[k]
              IN  (\A j \in 1..Len(Returned) : Returned[j] # x)
                    => \/ Occurrences(x) < Occurrences(Returned[i])
                       \/ /\ Occurrences(x) = Occurrences(Returned[i])
                          /\ FirstIndex(Returned[i]) < FirstIndex(x)
    /\ (Payload(parsed) = [k \in 1..6 |-> JStr(SpecExample[k])] /\ top_n = 2)
         => ret = JArr(<<[name |-> JStr(Ramen), mention_count |-> 3],
                         [name |-> JStr(Sushi), mention_count |-> 2]>>)

\* two names of equal count came back in the order of their first
\* occurrence, and the limit cut the list
C6_Witness ==
  /\ CountedNames
  /\ op = "extract_popular_dishes"
  /\ pc = "done"
  /\ top_n = 2
  /\ Payload(parsed) = <<JStr(Sushi), JStr(Ramen), JStr(RamenLower)>>
  /\ Returned = <<JStr(Sushi), JStr(Ramen)>>

\* C7: every returned entry's mention_count is a positive integer equal to
\* the number of occurrences of exactly that string in the parsed array;
\* names that differ only in case are counted apart.
C7_ExactCounts ==
  CountedNames =>
    /\ exc = "none"
    /\ Tag(ret) = "arr"
    /\ \A i \in 1..Len(Payload(ret)) :
         /\ Payload(ret)[i].mention_count \in Nat \ {0}
         /\ Payload(ret)[i].mention_count = Occurrences(Payload(ret)[i].name)

\* Ramen and ramen came back as two entries with their own counts
C7_Witness ==
  /\ CountedNames
  /\ pc = "done"
  /\ Payload(parsed) = <<JStr(Ramen), JStr(RamenLower), JStr(Ramen)>>
  /\ ret = JArr(<<[name |-> JStr(Ramen), mention_count |-> 2],
                  [name |-> JStr(RamenLower), mention_count |-> 1]>>)

\* the score the matcher is documented to give a menu item: 1 for names
\* equal when lower-cased, 0.9 when one contains the other, otherwise the
\* similarity ratio
ItemScore(dish, item) ==
  IF Lower(dish) = Lower(item) THEN <<1, 1>>
  ELSE IF In(Lower(dish), Lower(item)) \/ In(Lower(item), Lower(dish)) THEN <<9, 10>>
  ELSE Ratio(Lower(dish), Lower(item))
\* item k attains the highest score over the menu
Attains(k) ==
  \A j \in 1..Len(m.menu_items) :
    RatLeq(ItemScore(m.dish_name, m.menu_items[j]), ItemScore(m.dish_name, m.menu_items[k]))
\* match_dish_to_menu returns an item exactly when the highest score
\* reaches the threshold, and then an item attaining it
ThresholdDecides ==
  /\ ret # JNull <=>
       \E k \in 1..Len(m.menu_items) :
         Attains(k) /\ RatLeq(m.threshold, ItemScore(m.dish_name, m.menu_items[k]))
  /\ ret # JNull =>
       \E k \in 1..Len(m.menu_items) : Attains(k) /\ ret = JStr(m.menu_items[k])
MatchFinished == op = "match_dish_to_menu" /\ pc = "done"

\* C8 as stated: for every threshold, match_dish_to_menu returns an item
\* iff the highest score over the menu is at least the threshold, and the
\* item returned attains that score.
C8_ThresholdInclusive == MatchFinished => ThresholdDecides

\* C8 amended: the same for every threshold t with 0 < t <= 1.
C8_ThresholdInUnitRange ==
  (MatchFinished /\ RatLess(<<0, 1>>, m.threshold) /\ RatLeq(m.threshold, <<1, 1>>))
    => ThresholdDecides

\* a substring score of exactly 0.9 was accepted at the threshold 0.9
C8_Witness ==
  /\ MatchFinished
  /\ m.dish_name = Tonkatsu
  /\ m.menu_items = <<Xyz123, TonkatsuCurry>>
  /\ m.threshold = <<9, 10>>
  /\ m.best_score = <<9, 10>>
  /\ ret = JStr(TonkatsuCurry)

\* C9: each loop iteration scores its item in strict priority order: an
\* item equal when lower-cased is returned at once, whatever candidate came
\* before; else an item containing or contained in the dish name scores
\* exactly 0.9, the ratio unused; else it scores the similarity ratio.
\* tonkatsu against Tonkatsu Curry, Ramen at 0.7 returns Tonkatsu Curry.
C9_ScorePriority ==
  [][(op = "match_dish_to_menu" /\ pc = "md_loop" /\ m.i <= Len(m.menu_items)) =>
       LET item == m.menu_items[m.i]
           d == Lower(m.dish_name)
           l == Lower(item)
           s == IF In(d, l) \/ In(l, d) THEN <<9, 10>> ELSE Ratio(d, l)
       IN  IF d = l
           THEN pc' = "done" /\ ret' = JStr(item)
           ELSE /\ pc' = "md_loop"
                /\ m'.i = m.i + 1
                /\ m'.best_score = IF RatLess(m.best_score, s) THEN s ELSE m.best_score
                /\ m'.best_match = IF RatLess(m.best_score, s) THEN JStr(item)
                                   ELSE m.best_match]_vars
  /\ [](MatchFinished /\ m.dish_name = Tonkatsu
          /\ m.menu_items = <<TonkatsuCurry, Ramen>> /\ m.threshold = <<7, 10>>
        => ret = JStr(TonkatsuCurry))

\* an exact match was returned although the item before it was a substring
\* candidate
C9_Witness ==
  /\ MatchFinished
  /\ m.dish_name = Tonkatsu
  /\ m.menu_items = <<TonkatsuCurry, Tonkatsu>>
  /\ m.best_match = JStr(TonkatsuCurry)
  /\ m.best_score = <<9, 10>>
  /\ ret = JStr(Tonkatsu)

\* the text T was wrapped in a fence before it was handed to safe_json_parse
Wrapped == Answered("parse_menu") /\ response.wrapper # << >>
\* T, trimmed, begins or ends with a fence marker of its own
SelfFenced(t) == StartsWithAt(Strip(t), 1, Fence) \/ EndsWith(Strip(t), Fence)

\* C10 as stated: for every text T that safe_json_parse parses, T wrapped in
\* a fence parses to the same value.
C10_FenceTransparent ==
  (Wrapped /\ (SjpReturned \/ SjpRaised) /\ SafeJsonParse(response.unfenced).ok)
    => (SjpReturned /\ parsed = SafeJsonParse(response.unfenced).val)

\* C10 amended: the same for every parsed T that does not itself begin or
\* end with a fence marker, or that contains both { and }.
C10_FenceTransparentUnfenced ==
  (/\ Wrapped
   /\ SjpReturned \/ SjpRaised
   /\ SafeJsonParse(response.unfenced).ok
   /\ \/ ~SelfFenced(response.unfenced)
      \/ Find(response.unfenced, "{") # 0 /\ Find(response.unfenced, "}") # 0)
    => (SjpReturned /\ parsed = SafeJsonParse(response.unfenced).val)

\* a fenced array, which only the fence removal can uncover, parsed to the
\* array
C10_Witness ==
  /\ Wrapped
  /\ SjpReturned
  /\ response.unfenced = TxtArray
  /\ response.wrapper = FenceJson
  /\ parsed = SafeJsonParse(TxtArray).val
  /\ Tag(parsed) = "arr"

\* C11: for every valid JSON object text J and every text made from J by
\* putting one comma (and optional whitespace) in front of one closing } or
\* ], safe_json_parse returns the strict parse of J, whatever J's strings
\* hold.
C11_TrailingCommaRecovered ==
  (Answered("parse_menu") /\ (SjpReturned \/ SjpRaised)) =>
    \A J \in ObjectTexts :
      \A i \in ClosersFrom(J, 1, FALSE), pad \in CommaPads :
        response.text = WithTrailingComma(J, i, pad)
          => (SjpReturned /\ parsed = JsonLoads(J).val)

\* C12: a model answer that is a dish array with a trailing comma in front
\* of its closing ] is recovered by the dish pipeline and aggregated
\* exactly like the comma-free array; it does not end in the empty list.
C12_DishArrayRecovered ==
  (ExtractFinished /\ call = "answered" /\ response.present) =>
    \A l \in NameLists :
      (Len(l) > 0
       /\ response.text = WithTrailingComma(ArrayText(l), Len(ArrayText(l)), << >>))
        => /\ exc = "none"
           /\ ret = JArr(Aggregate(JArr([k \in 1..Len(l) |-> JStr(l[k])]), top_n, << >>).ret)

C14_SingleCall ==
  /\ clients <= 1
  /\ model_calls <= 1
  /\ call # "none" => model_calls = 1
  /\ call = "failed" =>
       /\ pc \in {"pm_respond", "ep_except", "gr_respond", "gp_respond", "done"}
       /\ (op = "parse_menu" /\ pc = "done") => (exc # "none" /\ ret = JNull /\ status >= 400)
       /\ (op = "extract_popular_dishes" /\ pc = "done") => (exc # "none" \/ ret = JArr(<< >>))
  /\ (op = "parse_menu" /\ pc = "done" /\ call = "answered" /\ Tag(ret) = "null")
       => (exc # "none" /\ status >= 400)

\* a failed call of the dish extraction ended in the empty list after one
\* call
C14_Witness ==
  /\ op = "extract_popular_dishes"
  /\ pc = "done"
  /\ call = "failed"
  /\ model_calls = 1
  /\ clients = 1
  /\ ret = JArr(<< >>)

\* the assembler has accepted the parsed object: ret holds the ParsedMenu
Assembled ==
  /\ op = "parse_menu"
  /\ pc \in {"pm_respond", "done"}
  /\ Tag(ret) = "ParsedMenu"
\* the elements of the JSON array under key k of object v, none when the
\* key is absent
JsonList(v, k) ==
  IF Tag(v) = "obj" /\ k \in DOMAIN Payload(v) /\ Tag(Payload(v)[k]) = "arr"
  THEN Payload(Payload(v)[k]) ELSE << >>

\* C15: the ParsedMenu built from an accepted JSON object has as many
\* categories as the JSON menu array and every category as many items as
\* its JSON items array, each at the position it has in the JSON: nothing
\* is reordered, left out, or merged.
C15_OrderPreserved ==
  Assembled =>
    LET cats == JsonList(parsed, KeyMenu)
    IN  /\ Len(ret[2].menu) = Len(cats)
        /\ \A i \in 1..Len(cats) :
             /\ ret[2].menu[i].category = Payload(cats[i])[KeyCategory]
             /\ Len(ret[2].menu[i].items) = Len(JsonList(cats[i], KeyItems))
             /\ \A j \in 1..Len(JsonList(cats[i], KeyItems)) :
                  ret[2].menu[i].items[j].name = Payload(JsonList(cats[i], KeyItems)[j])[KeyName]

\* two categories of the same name, the first with items B, A and the
\* second with items A, A, came out as they went in
C15_Witness ==
  /\ Assembled
  /\ Len(ret[2].menu) = 2
  /\ ret[2].menu[1].category = ret[2].menu[2].category
  /\ [j \in 1..Len(ret[2].menu[1].items) |-> ret[2].menu[1].items[j].name]
       = <<JStr(<<"B">>), JStr(<<"A">>)>>
  /\ [j \in 1..Len(ret[2].menu[2].items) |-> ret[2].menu[2].items[j].name]
       = <<JStr(<<"A">>), JStr(<<"A">>)>>

\* the JSON object v has no string under its required key k
LacksRequired(v, k) ==
  Tag(v) = "obj" /\ (k \notin DOMAIN Payload(v) \/ Tag(Payload(v)[k]) # "str")
\* some category of the parsed menu has no string category, or some item of
\* some category has no string name
Offending ==
  \E i \in 1..Len(JsonList(parsed, KeyMenu)) :
    LET c == JsonList(parsed, KeyMenu)[i]
    IN  \/ LacksRequired(c, KeyCategory)
        \/ \E j \in 1..Len(JsonList(c, KeyItems)) :
              LacksRequired(JsonList(c, KeyItems)[j], KeyName)
\* the parsed object gives the required fields and nothing else that is set:
\* at most a menu list of categories that have a string category and at
\* most an items list of items that have a string name only
OnlyRequiredGiven ==
  /\ Tag(parsed) = "obj"
  /\ DOMAIN Payload(parsed) \subseteq {KeyMenu}
  /\ KeyMenu \in DOMAIN Payload(parsed) => Tag(Payload(parsed)[KeyMenu]) = "arr"
  /\ \A i \in 1..Len(JsonList(parsed, KeyMenu)) :
       LET c == JsonList(parsed, KeyMenu)[i]
       IN  /\ ~LacksRequired(c, KeyCategory)
           /\ Tag(c) = "obj"
           /\ DOMAIN Payload(c) \subseteq {KeyCategory, KeyItems}
           /\ KeyItems \in DOMAIN Payload(c) => Tag(Payload(c)[KeyItems]) = "arr"
           /\ \A j \in 1..Len(JsonList(c, KeyItems)) :
                /\ Tag(JsonList(c, KeyItems)[j]) = "obj"
                /\ DOMAIN Payload(JsonList(c, KeyItems)[j]) = {KeyName}
                /\ ~LacksRequired(JsonList(c, KeyItems)[j], KeyName)
\* parse_menu_image has gone past line 241 with a parsed JSON object
AssembleRan ==
  op = "parse_menu" /\ pc \in {"pm_respond", "done"} /\ Tag(parsed) = "obj"

\* C16: when a category of the parsed JSON has no string category or an item
\* has no string name, building the ParsedMenu raises a validation error, no
\* ParsedMenu is returned and the request is answered 400 with no menu; when
\* only the required fields are given the ParsedMenu is built, and every
\* field that is absent has its default: null, or the empty list for items
\* and menu.
C16_ValidationAllOrNothing ==
  AssembleRan =>
    /\ Offending =>
          /\ exc = "ValidationError"
          /\ ret = JNull
          /\ pc = "done" => status = 400 /\ body = JNull
    /\ OnlyRequiredGiven =>
          /\ exc = "none"
          /\ Tag(ret) = "ParsedMenu"
          /\ ret[2].detected_language = JNull
          /\ ret[2].target_language = JNull
          /\ KeyMenu \notin DOMAIN Payload(parsed) => ret[2].menu = << >>
          /\ \A i \in 1..Len(ret[2].menu) :
               /\ ret[2].menu[i].category_translated = JNull
               /\ KeyItems \notin DOMAIN Payload(JsonList(parsed, KeyMenu)[i])
                    => ret[2].menu[i].items = << >>
               /\ \A j \in 1..Len(ret[2].menu[i].items) :
                    \A f \in DOMAIN ret[2].menu[i].items[j] \ {"name"} :
                      ret[2].menu[i].items[j][f] = JNull

\* a menu whose first category is complete and whose second has an item
\* without a name was refused as a whole
C16_Witness ==
  /\ AssembleRan
  /\ pc = "done"
  /\ Len(JsonList(parsed, KeyMenu)) = 2
  /\ ValidMenuCategory(JsonList(parsed, KeyMenu)[1])
  /\ \E j \in 1..Len(JsonList(JsonList(parsed, KeyMenu)[2], KeyItems)) :
       KeyName \notin DOMAIN Payload(JsonList(JsonList(parsed, KeyMenu)[2], KeyItems)[j])
  /\ status = 400
  /\ ret = JNull
\* a category given without items was built with the empty list
C16_DefaultsTaken ==
  /\ AssembleRan
  /\ OnlyRequiredGiven
  /\ \E i \in 1..Len(ret[2].menu) :
       KeyItems \notin DOMAIN Payload(JsonList(parsed, KeyMenu)[i])
  /\ \E i \in 1..Len(ret[2].menu) : ret[2].menu[i].items # << >>

\* the value of a number literal of digits with at most one point, as a
\* fraction <<numerator, denominator>>
RECURSIVE Pow10(_)
Pow10(k) == IF k = 0 THEN 1 ELSE 10 * Pow10(k - 1)
NumValue(lit) ==
  LET d == Find(lit, ".")
  IN  IF d = 0 THEN <<IntOf(lit), 1>>
      ELSE <<IntOf(Slice(lit, 1, d - 1)) * Pow10(Len(lit) - d)
               + IntOf(Slice(lit, d + 1, Len(lit))),
             Pow10(Len(lit) - d)>>
\* structural equality of two JSON values: the same keys with equal values,
\* the same elements in the same order, numbers equal by value (12 and 12.0)
RECURSIVE SameJson(_, _)
SameJson(a, b) ==
  /\ Tag(a) = Tag(b)
  /\ CASE Tag(a) = "obj" ->
            /\ DOMAIN Payload(a) = DOMAIN Payload(b)
            /\ \A k \in DOMAIN Payload(a) : SameJson(Payload(a)[k], Payload(b)[k])
       [] Tag(a) = "arr" ->
            /\ Len(Payload(a)) = Len(Payload(b))
            /\ \A i \in 1..Len(Payload(a)) : SameJson(Payload(a)[i], Payload(b)[i])
       [] Tag(a) = "num" ->
            NumValue(Payload(a))[1] * NumValue(Payload(b))[2]
              = NumValue(Payload(b))[1] * NumValue(Payload(a))[2]
       [] OTHER -> a = b
\* the keys of the three models
ItemKeys ==
  {FieldNames[f] : f \in {"name", "name_translated", "price", "price_original",
                          "currency", "description", "description_translated"}}
CategoryKeys == {FieldNames[f] : f \in {"category", "category_translated", "items"}}
MenuKeys == {FieldNames[f] : f \in {"detected_language", "target_language", "menu"}}
\* the JSON object v with every key of keys that it lacks added: an empty
\* array under a key of lists, null under any other
Filled(v, keys, lists) ==
  JObj([k \in keys |->
          IF k \in DOMAIN Payload(v) THEN Payload(v)[k]
          ELSE IF k \in lists THEN JArr(<< >>) ELSE JNull])
\* the parsed JSON with the absent fields of every level filled in
ParsedWithDefaults ==
  LET Cat(c) ==
        LET f == Filled(c, CategoryKeys, {KeyItems})
        IN  JObj([Payload(f) EXCEPT ![KeyItems] =
                    JArr([j \in 1..Len(Payload(@)) |->
                            Filled(Payload(@)[j], ItemKeys, {})])])
      top == Filled(parsed, MenuKeys, {KeyMenu})
  IN  JObj([Payload(top) EXCEPT ![KeyMenu] =
              JArr([i \in 1..Len(Payload(@)) |-> Cat(Payload(@)[i])])])
\* the parsed JSON has the shape of the data model: no key but those of the
\* models, and every price a number or null
DataModelShape ==
  /\ Tag(parsed) = "obj"
  /\ DOMAIN Payload(parsed) \subseteq MenuKeys
  /\ \A i \in 1..Len(JsonList(parsed, KeyMenu)) :
       LET c == JsonList(parsed, KeyMenu)[i]
       IN  /\ DOMAIN Payload(c) \subseteq CategoryKeys
           /\ \A j \in 1..Len(JsonList(c, KeyItems)) :
                LET it == JsonList(c, KeyItems)[j]
                IN  /\ DOMAIN Payload(it) \subseteq ItemKeys
                    /\ KeyPrice \in DOMAIN Payload(it)
                         => Tag(Payload(it)[KeyPrice]) \in {"num", "null"}
\* POST /api/v1/menu/parse has answered 200 with the serialized ParsedMenu
\* built from a JSON value of the data-model shape
RoundTripped ==
  op = "parse_menu" /\ pc = "done" /\ status = 200 /\ DataModelShape

\* C17 as stated: the serialized ParsedMenu is structurally equal to the JSON
\* it was built from, a field that was absent being absent again and a field
\* that was null being null again.
C17_RoundTripKeepsPresence == RoundTripped => SameJson(parsed, body)

\* C17 as amended: the serialized ParsedMenu is structurally equal to the
\* JSON it was built from once that JSON's absent fields are filled in with
\* their defaults (null, the empty list for items and menu): the values given
\* come back unchanged (numbers by value) and in order, a field that was null
\* is null, and a field that was absent is present as null or the empty list.
C17_RoundTripFillsDefaults == RoundTripped => SameJson(ParsedWithDefaults, body)

\* an item given as name, price 12 and description null came back with all
\* seven fields, the price equal to 12 and the absent fields null
C17_Witness ==
  /\ RoundTripped
  /\ \E i \in 1..Len(JsonList(parsed, KeyMenu)) :
       \E j \in 1..Len(JsonList(JsonList(parsed, KeyMenu)[i], KeyItems)) :
         LET given == Payload(JsonList(JsonList(parsed, KeyMenu)[i], KeyItems)[j])
             back == JsonList(JsonList(body, KeyMenu)[i], KeyItems)[j]
         IN  /\ DOMAIN given = {KeyName, KeyPrice, FieldNames.description}
             /\ given[FieldNames.description] = JNull
             /\ given[KeyPrice] = JNum(<<"1", "2">>)
             /\ DOMAIN Payload(back) = ItemKeys
             /\ Payload(back)[KeyPrice] = JNum(<<"1", "2", ".", "0">>)
             /\ Payload(back)[FieldNames.currency] = JNull

\* build_multilingual_prompt has returned, to its caller or to
\* parse_menu_image: prompt holds its lines
PromptBuilt ==
  /\ prompt # << >>
  /\ \/ op = "build_multilingual_prompt"
     \/ op = "parse_menu" /\ pc = "pm_call"
\* a target language was supplied: a string that is not empty
Supplied == target_language \notin {JNull, JStr(<< >>)}
\* the key a line of the example JSON starts with (after its indentation),
\* none when the line does not start with a quoted key
KeyOfLine(line) ==
  IF Len(line) >= 4 /\ line[2] = Q /\ \E k \in 3..Len(line) : line[k] = Q
  THEN SubSeq(line, 3, (CHOOSE k \in 3..Len(line) :
                          line[k] = Q /\ \A j \in 3..(k - 1) : line[j] # Q) - 1)
  ELSE << >>
\* the lines of the example JSON in prompt p: from the line { to the line }
Skeleton(p) ==
  LET open == CHOOSE i \in 1..Len(p) : p[i] = <<"{">> /\ \A j \in 1..(i - 1) : p[j] # <<"{">>
      close == CHOOSE i \in 1..Len(p) : p[i] = <<"}">> /\ \A j \in 1..(i - 1) : p[j] # <<"}">>
  IN  SubSeq(p, open, close)
\* the keys of the example JSON of p at one depth of indentation, in order
SkeletonKeys(p, indent) ==
  LET IsKey(line) == KeyOfLine(line) # << >> /\ line[1] = indent
      lines == SelectSeq(Skeleton(p), IsKey)
  IN  [i \in 1..Len(lines) |-> KeyOfLine(lines[i])]
\* the fields of the three models in the order of their declaration
ModelFields ==
  LET F == FieldNames
  IN  [top |-> <<F.detected_language, F.target_language, F.menu>>,
       category |-> <<F.category, F.category_translated, F.items>>,
       item |-> <<F.name, F.name_translated, F.price, F.price_original, F.currency,
                  F.description, F.description_translated>>]
TranslatedFields ==
  {FieldNames.category_translated, FieldNames.name_translated,
   FieldNames.description_translated}
NotTranslated(k) == k \notin TranslatedFields
\* the lines of the example JSON of p that do not hold a translated field or
\* the target language
PlainLines(p) ==
  LET Plain(line) == KeyOfLine(line) \notin TranslatedFields \cup {FieldNames.target_language}
  IN  SelectSeq(Skeleton(p), Plain)
\* the translation instruction: task 7 and its three fields
InstructionLines ==
  {i \in 1..Len(prompt) :
     prompt[i] # << >> /\ prompt[i][1] \in {"7. Translate ALL text to ",
                       "   - category_translated: Translate category name to ",
                       "   - name_translated: Translate dish name to ",
                       "   - description_translated: Translate description to "}}
\* what follows the key target_language in the example JSON
SkeletonTarget ==
  LET line == CHOOSE l \in {Skeleton(prompt)[i] : i \in 1..Len(Skeleton(prompt))} :
                KeyOfLine(l) = FieldNames.target_language
  IN  SubSeq(line, Len(FieldNames.target_language) + 5, Len(line))

\* C18: the prompt holds the translation instruction (task 7 with its three
\* fields) and its example JSON holds category_translated, name_translated
\* and description_translated exactly when a target language is supplied (a
\* string that is not empty), and then the example's target_language is that
\* language; otherwise none of them appears and the example's target_language
\* is null.  In both cases the other keys of the example are those of the
\* data model, level by level and in its order, on the same lines as in the
\* prompt built without a target language.
C18_TranslationIffTarget ==
  PromptBuilt =>
    LET keys == [top |-> SkeletonKeys(prompt, "  "),
                 category |-> SkeletonKeys(prompt, "      "),
                 item |-> SkeletonKeys(prompt, "          ")]
    IN  /\ IF Supplied THEN Cardinality(InstructionLines) = 4 ELSE InstructionLines = {}
        /\ \A level \in DOMAIN ModelFields :
             /\ SelectSeq(keys[level], NotTranslated)
                  = SelectSeq(ModelFields[level], NotTranslated)
             /\ IF Supplied THEN keys[level] = ModelFields[level]
                ELSE \A i \in 1..Len(keys[level]) : NotTranslated(keys[level][i])
        /\ SkeletonTarget = IF Supplied THEN <<Q>> \o Payload(target_language) \o <<Q, ",">>
                            ELSE <<"null", ",">>
        /\ PlainLines(prompt) = PlainLines(BuildMultilingualPrompt(JNull))

\* the prompt for target language "En" holds task 7 and all thirteen fields
C18_Witness ==
  /\ op = "build_multilingual_prompt"
  /\ pc = "done"
  /\ target_language = JStr(<<"E", "n">>)
  /\ Cardinality(InstructionLines) = 4
  /\ TranslatedFields \subseteq
       {SkeletonKeys(prompt, "      ")[i] : i \in 1..Len(SkeletonKeys(prompt, "      "))}
       \cup {SkeletonKeys(prompt, "          ")[i] :
               i \in 1..Len(SkeletonKeys(prompt, "          "))}
\* the prompt of a request without target language holds none of them
C18_WitnessWithout ==
  /\ op = "parse_menu"
  /\ PromptBuilt
  /\ target_language = JNull
  /\ Len(SkeletonKeys(prompt, "          ")) = 5

\* the text r is what bracket isolation should keep of the text t: the part
\* of t from its first open to its last close, both included, when t holds
\* both brackets, and t itself when it lacks either
KeepsBracketed(t, r, open, close) ==
  IF (\E i \in 1..Len(t) : t[i] = open) /\ (\E i \in 1..Len(t) : t[i] = close)
  THEN /\ r # << >>
       /\ r[1] = open
       /\ r[Len(r)] = close
       /\ \E i \in 1..(Len(t) - Len(r) + 1) :
            /\ Slice(t, i, i + Len(r) - 1) = r
            /\ \A j \in 1..(i - 1) : t[j] # open
            /\ \A j \in (i + Len(r))..Len(t) : t[j] # close
  ELSE r = t

\* C19: the isolation step of either pipeline keeps exactly the text from the
\* first opening bracket of its kind ({ for the menu, [ for the dishes) to
\* the last closing bracket of that kind, and leaves the de-fenced text
\* unchanged when either bracket is absent.
C19_IsolationKeepsBracketed ==
  [][/\ pc = "sjp_isolate" => KeepsBracketed(json_str, json_str', "{", "}")
     /\ pc = "ep_isolate" => KeepsBracketed(result_text, result_text', "[", "]")]_vars
\* the text t holds both brackets, the last close before the first open
Inverted(t, open, close) ==
  Find(t, open) # 0 /\ RFind(t, close) # 0 /\ RFind(t, close) < Find(t, open)
\* the same holds of every text but those whose last closing bracket stands
\* before their first opening bracket: of these nothing is kept
C19_IsolationInOrder ==
  [][/\ pc = "sjp_isolate" =>
          IF Inverted(json_str, "{", "}") THEN json_str' = << >>
          ELSE KeepsBracketed(json_str, json_str', "{", "}")
     /\ pc = "ep_isolate" =>
          IF Inverted(result_text, "[", "]") THEN result_text' = << >>
          ELSE KeepsBracketed(result_text, result_text', "[", "]")]_vars

\* safe_json_parse has just returned, or raised its ValueError
SjpOver ==
  /\ op = "parse_menu"
  /\ pc = "pm_assemble" \/ (pc = "pm_respond" /\ msg # NoMessage)
\* the order of the attempts
AttemptOrder == <<"direct", "trailing", "missing">>
\* {"a":"x"<newline>"b":"y",} : a comma is missing between the two members
\* and one stands before the closing brace
BothDefects ==
  <<"{", Q, "a", Q, ":", Q, "x", Q, NL, Q, "b", Q, ":", Q, "y", Q, ",", "}">>

\* C20: the attempts are made in the order direct, trailing-comma repair,
\* missing-comma repair; the parse ends with the first attempt that succeeds
\* on its text and returns its value, so that an attempt is made only when
\* those before it have failed, or raises after the third; the third attempt
\* is made on the text of the second with the missing commas inserted, so
\* that the text with both defects is recovered.
C20_AttemptsInOrder ==
  op = "parse_menu" =>
    LET texts == <<json_str, RemoveTrailingCommas(json_str),
                   InsertMissingCommas(RemoveTrailingCommas(json_str))>>
        parses == {k \in 1..3 : JsonLoads(texts[k]).ok}
        first == CHOOSE k \in parses : \A j \in parses : k <= j
    IN  /\ Len(attempts) <= 3
        /\ attempts = SubSeq(AttemptOrder, 1, Len(attempts))
        /\ SjpOver =>
             /\ Len(attempts) = 3 => json_str_fixed = texts[3]
             /\ IF parses = {} THEN attempts = AttemptOrder /\ parsed = JNull
                ELSE Len(attempts) = first /\ parsed = JsonLoads(texts[first]).val
        /\ SjpOver /\ json_str = BothDefects =>
             /\ attempts = AttemptOrder
             /\ parsed = JObj((<<"a">> :> JStr(<<"x">>)) @@ (<<"b">> :> JStr(<<"y">>)))

\* the text with both defects, answered after prose, was parsed by the third
\* attempt
C20_Witness ==
  /\ SjpOver
  /\ json_str = BothDefects
  /\ result_text # json_str
  /\ attempts = AttemptOrder
  /\ Tag(parsed) = "obj"
\* a text the second attempt parses: the third is not made
C20_StopsAtSecond ==
  /\ SjpOver
  /\ attempts = <<"direct", "trailing">>
  /\ Tag(parsed) = "obj"
\* the cases of a missing comma whose first value holds no comma in front of
\* a closing bracket
PlainCases == {c \in MissingCommaCases : c[1] # <<",", "}">>}
\* the dish answer ["Ramen"<newline>"Sushi"]
MissingCommaDishes == <<"[", Q>> \o Ramen \o <<Q, NL, Q>> \o Sushi \o <<Q, "]">>
\* what C21 says of the cases in the set cases
MissingCommaRepaired(cases) ==
  /\ (Answered("parse_menu") /\ (SjpReturned \/ SjpRaised)) =>
       \A c \in cases :
         response.text = TwoFields(c[1], c[2]) =>
           /\ SjpReturned
           /\ attempts = AttemptOrder
           /\ parsed = JsonLoads(TwoFields(c[1], <<",", NL>>)).val
  /\ (ExtractFinished /\ Answered(op) /\ response.text = MissingCommaDishes) =>
       /\ attempts = <<"direct">>
       /\ ret = JArr(<< >>)

\* C21: in object mode, when the comma is missing between a string value and
\* the key on the following line (closing quote, optional whitespace,
\* newline, optional whitespace, opening quote), safe_json_parse inserts the
\* comma and returns the value of the text with the comma present; the dish
\* pipeline applies no such repair and ends in the empty list.
C21_MissingCommaRecovered == MissingCommaRepaired(MissingCommaCases)

\* C21 holds of the values that hold no comma in front of a closing bracket
C21_PlainValuesRecovered == MissingCommaRepaired(PlainCases)


\* C22: every value safe_json_parse returns is a JSON object; a text whose
\* JSON is an array, a string, a number, a boolean or null is not returned
\* to parse_menu_image as if it were a menu object.
C22_ReturnsObject == SjpReturned => Tag(parsed) = "obj"


\* search_places has returned or raised
SearchFinished == op \in {"search_places", "places_search"} /\ pc = SpReturn
\* the Find Place answer of this call is an exact match
FoundExactly == sp.exact_result.status = "OK" /\ sp.exact_result.results >= 1

\* C23: with use_exact_match true search_places first sends the Find Place
\* request, and sends the text search afterwards exactly when that request
\* did not answer status OK with at least one candidate (a failed Find Place
\* request is ERROR: not found, nothing raised); with use_exact_match false
\* no Find Place request is sent; a failure of the text search is raised to
\* the caller.
C23_ExactThenTextSearch ==
  /\ op \in {"search_places", "places_search"} =>
       /\ (sp.use_exact_match /\ outbound # << >>) => outbound[1] = "find_place"
       /\ ~sp.use_exact_match => \A k \in 1..Len(outbound) : outbound[k] # "find_place"
       /\ \A k \in 2..Len(outbound) : outbound[k] = "text_search"
       /\ Len(outbound) <= 2
       /\ outbound = <<"find_place">> => exc = "none"
       /\ (pc = "done" /\ exc # "none") => (op = "places_search" => status = 500)
  /\ (SearchFinished /\ sp.use_exact_match) =>
       /\ outbound = IF FoundExactly THEN <<"find_place">>
                     ELSE <<"find_place", "text_search">>
       /\ FoundExactly => (exc = "none" /\ sp.result = sp.exact_result)
  /\ (SearchFinished /\ ~sp.use_exact_match) => outbound = <<"text_search">>
  /\ (SearchFinished /\ exc = "none") => sp.result # NoPlaces
  /\ (SearchFinished /\ sp.result = NoPlaces) =>
       /\ exc = "RequestException"
       /\ outbound[Len(outbound)] = "text_search"

\* C23 witness: the Find Place request failed, the text search was sent after
\* it and answered, and search_places returned its answer
C23_Witness ==
  /\ op = "search_places"
  /\ pc = "done"
  /\ sp.use_exact_match
  /\ sp.exact_result = FindPlaceFailed
  /\ outbound = <<"find_place", "text_search">>
  /\ exc = "none"
  /\ sp.result = [status |-> "OK", results |-> 1]


\* the keys an endpoint needs, as C24 lists them
KeysNeeded ==
  CASE op = "parse_menu" -> {"gemini_api_key"}
    [] op = "search_restaurant" -> {"yelp_api_key"}
    [] op = "get_restaurant" -> {"yelp_api_key", "gemini_api_key"}
    [] op = "places_search" -> {"google_places_api_key"}
    [] op = "get_place" -> {"google_places_api_key", "gemini_api_key"}
    [] OTHER -> {}
\* nothing has been sent in this request: no request to Yelp or Google
\* Places, no client made, no model call
NothingSent == outbound = << >> /\ clients = 0 /\ model_calls = 0

\* C24: in every endpoint that needs an API key the key checks come before
\* all outbound work: when a key it needs is unset the endpoint answers HTTP
\* 500 and nothing has been sent to Yelp, Google Places or the model in that
\* request; the detail endpoints check the data-source key and the model key
\* before the data-source request.
C24_KeyChecksFirst ==
  (\E k \in KeysNeeded : ~settings[k]) =>
    /\ NothingSent
    /\ pc = "done"
    /\ status = 500

\* C24 witness: the place detail endpoint with the Google key set and the
\* model key unset has answered 500 and has sent nothing
C24_Witness ==
  /\ op = "get_place"
  /\ settings.google_places_api_key
  /\ ~settings.gemini_api_key
  /\ pc = "done"
  /\ status = 500
  /\ NothingSent

\* in the requests that pass the key checks the work is sent: the place
\* detail endpoint with both keys reaches Google Places and the model
C24_WitnessWorkSent ==
  /\ op = "get_place"
  /\ pc = "done"
  /\ status = 200
  /\ outbound = <<"place_details">>
  /\ model_calls = 1


\* the decoded string literals of the text t from position i on
RECURSIVE StringLiterals(_, _)
StringLiterals(t, i) ==
  IF i > Len(t) THEN {}
  ELSE IF t[i] # Q THEN StringLiterals(t, i + 1)
  ELSE LET lit == ScanString(t, i + 1, << >>)
       IN  IF lit.ok THEN {Payload(lit.val)} \cup StringLiterals(t, lit.end) ELSE {}
\* the keys and the string values of the JSON value v
RECURSIVE StringsOf(_)
StringsOf(v) ==
  CASE Tag(v) = "str" -> {Payload(v)}
    [] Tag(v) = "arr" -> UNION {StringsOf(Payload(v)[k]) : k \in 1..Len(Payload(v))}
    [] Tag(v) = "obj" ->
         DOMAIN Payload(v) \cup UNION {StringsOf(Payload(v)[k]) : k \in DOMAIN Payload(v)}
    [] OTHER -> {}

\* C25: when safe_json_parse succeeds through a repair, the repair has
\* changed structural commas only: every key and every string value of the
\* value returned is, character for character, a string literal of the text
\* the attempts were made on; no repair takes characters out of a quoted
\* string or puts characters into one.
C25_RepairsKeepStrings ==
  (SjpReturned /\ Len(attempts) > 1) =>
    StringsOf(parsed) \subseteq StringLiterals(json_str, 1)

\* C25 holds of the answers that parse directly
C25_DirectKeepsStrings ==
  (SjpReturned /\ Len(attempts) = 1) =>
    StringsOf(parsed) \subseteq StringLiterals(json_str, 1)


\* r is the text t itself, or a part of t that is not empty, begins with the
\* opening bracket and ends with the closing one; a text whose last closing
\* bracket stands before its first opening bracket is handed on as it is
HandedOn(t, r, open, close) ==
  /\ \/ r = t
     \/ /\ r # << >>
        /\ r[1] = open
        /\ r[Len(r)] = close
        /\ \E i \in 1..(Len(t) - Len(r) + 1) : Slice(t, i, i + Len(r) - 1) = r
  /\ Inverted(t, open, close) => r = t
\* the de-fenced text the isolation step was given, in either pipeline
MenuDefenced == RemoveFences(Strip(result_text))
DishDefenced == RemoveFences(Strip(response.text))

\* C26: after the isolation step the text handed to the parse attempts is
\* the de-fenced text unchanged, or a part of it that is not empty, begins
\* with the opening bracket and ends with the closing bracket; a text whose
\* last closing bracket stands before its first opening bracket (} text {) is
\* neither emptied nor altered.
C26_HandedTextBracketed ==
  /\ (op = "parse_menu" /\ pc = "sjp_direct") =>
       HandedOn(MenuDefenced, json_str, "{", "}")
  /\ (pc = "ep_loads") => HandedOn(DishDefenced, result_text, "[", "]")

\* C26 holds of the texts whose brackets stand in order
C26_HandedTextInOrder ==
  /\ (op = "parse_menu" /\ pc = "sjp_direct" /\ ~Inverted(MenuDefenced, "{", "}")) =>
       HandedOn(MenuDefenced, json_str, "{", "}")
  /\ (pc = "ep_loads" /\ ~Inverted(DishDefenced, "[", "]")) =>
       HandedOn(DishDefenced, result_text, "[", "]")


\* the characters of a line of the prompt, its pieces joined (a character
\* outside ASCII stays the one piece that names it)
RECURSIVE CharsOf(_, _)
CharsOf(line, k) ==
  IF k > Len(line) THEN << >>
  ELSE (IF Len(line[k]) = 1 \/ SubSeq(line[k], 1, 2) = "u+" THEN <<line[k]>>
        ELSE [c \in 1..Len(line[k]) |-> SubSeq(line[k], c, c)])
       \o CharsOf(line, k + 1)
\* the characters of the lines of the example JSON of the prompt, the lines
\* joined by newlines
RECURSIVE SkeletonText(_, _)
SkeletonText(lines, i) ==
  IF i > Len(lines) THEN << >>
  ELSE CharsOf(lines[i], 1) \o (IF i < Len(lines) THEN <<NL>> ELSE << >>)
       \o SkeletonText(lines, i + 1)
\* the commas of the text t that are followed, whitespace apart, by a
\* closing bracket
TrailingCommas(t) ==
  {p \in 1..Len(t) :
     /\ t[p] = ","
     /\ SkipSet(t, p + 1, PyWhitespace) <= Len(t)
     /\ t[SkipSet(t, p + 1, PyWhitespace)] \in {"}", "]"}}
\* the lines of the example JSON that hold an odd number of double quotes: a
\* string is open at the end of the line
OpenStrings(lines) ==
  {i \in 1..Len(lines) :
     Cardinality({k \in 1..Len(CharsOf(lines[i], 1)) :
                    CharsOf(lines[i], 1)[k] = Q}) % 2 = 1}

\* C27: the example JSON of the prompt obeys the formatting rules the prompt
\* states, with and without target language: no comma of it is followed,
\* whitespace apart, by a closing } or ], and every string of it is closed by
\* a double quote.
C27_SkeletonObeysRules ==
  PromptBuilt =>
    /\ TrailingCommas(SkeletonText(Skeleton(prompt), 1)) = {}
    /\ OpenStrings(Skeleton(prompt)) = {}

\* what holds instead: without a target language the example has one
\* trailing comma, after the description and in front of the closing brace
\* of the item, and all its strings are closed; with a target language it
\* has no trailing comma, and the string of description_translated is left
\* open
C27_DefectByMode ==
  PromptBuilt =>
    LET lines == Skeleton(prompt)
        text == SkeletonText(lines, 1)
    IN  IF Supplied
        THEN /\ TrailingCommas(text) = {}
             /\ \A i \in 1..Len(lines) :
                  i \in OpenStrings(lines)
                    <=> KeyOfLine(lines[i]) = FieldNames.description_translated
        ELSE /\ OpenStrings(lines) = {}
             /\ Cardinality(TrailingCommas(text)) = 1
             /\ \A p \in TrailingCommas(text) :
                  /\ text[SkipSet(text, p + 1, PyWhitespace)] = "}"
                  /\ \E i \in 1..Len(lines) :
                       /\ KeyOfLine(lines[i]) = FieldNames.description
                       /\ Len(SkeletonText(lines, 1)) - Len(SkeletonText(lines, i + 1)) - 1 = p


\* the entries extract_popular_dishes returned
ReturnedEntries == IF Tag(ret) = "arr" THEN Payload(ret) ELSE << >>
\* entry e names a string that the array the model returned holds
NamesElement(e) ==
  /\ Tag(e.name) = "str"
  /\ Tag(parsed) = "arr"
  /\ \E k \in 1..Len(Payload(parsed)) : Payload(parsed)[k] = e.name

\* C28: every entry extract_popular_dishes returns has a name that is a
\* string and an element of the array the model returned, and no two entries
\* have the same name, whatever JSON value the model text parses to; when
\* that value is not an array, or its elements are not strings, no entry is
\* made up from it.
C28_NamesFromArray ==
  ExtractFinished =>
    /\ \A i \in 1..Len(ReturnedEntries) : NamesElement(ReturnedEntries[i])
    /\ \A i, j \in 1..Len(ReturnedEntries) :
         i # j => ReturnedEntries[i].name # ReturnedEntries[j].name

\* C28 holds of the answers that parse to an array of strings
C28_NamesOfStringArrays ==
  (ExtractFinished /\ Tag(parsed) = "arr"
   /\ \A k \in 1..Len(Payload(parsed)) : Tag(Payload(parsed)[k]) = "str") =>
    /\ \A i \in 1..Len(ReturnedEntries) : NamesElement(ReturnedEntries[i])
    /\ \A i, j \in 1..Len(ReturnedEntries) :
         i # j => ReturnedEntries[i].name # ReturnedEntries[j].name

=============================================================================
